---- MODULE Spec2Model ----
(***************************************************************************)
(* A model of the fault-tolerance core of the AI news digest pipeline:     *)
(* the circuit breaker (src/src/circuit_breaker.py), the deduplication     *)
(* store (src/src/firestore_client.py), the summarization client           *)
(* (src/src/llm_client.py behind src/src/rate_limiter.py and the breaker)  *)
(* and the digest orchestrator (src/src/main_digest_fixed.py).             *)
(***************************************************************************)
EXTENDS Integers, Sequences, FiniteSets, TLC

(***************************************************************************)
(* Bounds of the model.                                                    *)
(***************************************************************************)
MaxThreshold == 2      \* failure_threshold is drawn from 1..MaxThreshold
MaxRecovery == 2       \* recovery_timeout is drawn from 1..MaxRecovery
MaxSuccess == 2        \* success_threshold is drawn from 1..MaxSuccess
MaxTime == 5           \* the breaker's clock runs from 0 to MaxTime
NumUrls == 2           \* the URLs are 1..NumUrls
DayStep == 45          \* the store's clock advances DayStep days at a time
MaxDay == 135          \* and stops at MaxDay
MaxItems == 2          \* a feed fetch gives at most MaxItems items, of both kinds
MaxCalls == 4          \* the summarization client is called at most MaxCalls times
MaxCpm == 2            \* calls_per_minute is drawn from 1..MaxCpm
MaxGap == 3            \* at most MaxGap ticks pass between two calls of wait_if_needed
MaxWaits == 3          \* wait_if_needed is called at most MaxWaits times, all keys together
NumFeeds == 2          \* feeds of one kind in the configuration
MaxEntries == 2        \* a parsed feed holds at most MaxEntries entries
MaxPub == 2            \* publication days are 0..MaxPub, the last one today
MaxListed == 11        \* fetch_all_feeds gives at most MaxListed items of a kind
MaxTitlePhrases == 2   \* a title contains at most MaxTitlePhrases phrases of the tables
MaxDescriptionPhrases == 1  \* and a description at most MaxDescriptionPhrases
MaxBatch == 3          \* filter_items gets at most MaxBatch items

(***************************************************************************)
(* Circuit breaker: CircuitBreaker and SmartCircuitBreaker.                *)
(***************************************************************************)
VARIABLES
    smart,                 \* TRUE: the object is a SmartCircuitBreaker
    failure_threshold,     \* constructor arguments
    recovery_timeout,
    success_threshold,
    state,                 \* CircuitState
    failure_count,
    last_failure_time,     \* NoTime is Python's None
    success_count,         \* SmartCircuitBreaker only
    consecutive_failures,  \* SmartCircuitBreaker only
    now,                   \* datetime.now()
    pc,                    \* "idle", or "in_call" while the wrapped function runs
    outcome,               \* how the last call() ended
    trial,                 \* the last call() invoked the function in HALF_OPEN
    callSeq,               \* flips each time call() is entered
    streak,                \* consecutive invocations that raised expected_exception
    entry                  \* state, failure_count, last_failure_time when call() was entered

bvars == <<smart, failure_threshold, recovery_timeout, success_threshold, state,
           failure_count, last_failure_time, success_count, consecutive_failures,
           now, pc, outcome, trial, callSeq, streak, entry>>

\* the three fields as call() finds them
Fields == <<state, failure_count, last_failure_time>>


CLOSED == "closed"
OPEN == "open"
HALF_OPEN == "half_open"
NoTime == -1

\* __init__ of both classes
BreakerInit ==
    /\ smart \in BOOLEAN
    /\ failure_threshold \in 1..MaxThreshold
    /\ recovery_timeout \in 1..MaxRecovery
    /\ success_threshold \in (IF smart THEN 1..MaxSuccess ELSE {0})
    /\ state = CLOSED
    /\ failure_count = 0
    /\ last_failure_time = NoTime
    /\ success_count = 0
    /\ consecutive_failures = 0
    /\ now = 0
    /\ pc = "idle"
    /\ outcome = "none"
    /\ trial = FALSE
    /\ callSeq = 0
    /\ streak = 0
    /\ entry = <<CLOSED, 0, NoTime>>

\* a breaker that no specification but SpecBreaker moves
BreakerParked ==
    /\ BreakerInit
    /\ ~smart
    /\ failure_threshold = 1
    /\ recovery_timeout = 1

\* a breaker that never finds the recovery timeout over
ShouldAttemptReset_Never == FALSE

\* _should_attempt_reset
ShouldAttemptReset ==
    IF last_failure_time = NoTime
    THEN FALSE
    ELSE now >= last_failure_time + recovery_timeout

\* _time_until_retry
TimeUntilRetry ==
    IF last_failure_time = NoTime
    THEN 0
    ELSE LET remaining == (last_failure_time + recovery_timeout) - now
         IN  IF remaining > 0 THEN remaining ELSE 0

\* call(), the OPEN branch that raises "Circuit breaker is OPEN": the wrapped
\* function is not invoked
CallRejected ==
    /\ pc = "idle"
    /\ state = OPEN
    /\ ~ShouldAttemptReset
    /\ outcome' = "rejected"
    /\ trial' = FALSE
    /\ callSeq' = 1 - callSeq
    /\ entry' = Fields
    /\ UNCHANGED <<smart, failure_threshold, recovery_timeout, success_threshold,
                   state, failure_count, last_failure_time, success_count,
                   consecutive_failures, now, pc, streak>>

\* the state in which call() invokes the wrapped function
StateAtInvoke == IF state = OPEN THEN HALF_OPEN ELSE state

\* call(), up to the invocation of the wrapped function
CallInvoke ==
    /\ pc = "idle"
    /\ state = OPEN => ShouldAttemptReset
    /\ state' = StateAtInvoke
    /\ trial' = (StateAtInvoke = HALF_OPEN)
    /\ pc' = "in_call"
    /\ outcome' = "pending"
    /\ callSeq' = 1 - callSeq
    /\ entry' = Fields
    /\ UNCHANGED <<smart, failure_threshold, recovery_timeout, success_threshold,
                   failure_count, last_failure_time, success_count,
                   consecutive_failures, now, streak>>

\* _on_success that closes the circuit and forgets to reset the counter
BaseOnSuccess_KeepsCount ==
    /\ state' = CLOSED
    /\ UNCHANGED <<failure_count, success_count, consecutive_failures>>

\* CircuitBreaker._on_success
BaseOnSuccess ==
    /\ failure_count' = 0
    /\ state' = CLOSED
    /\ UNCHANGED <<success_count, consecutive_failures>>

\* SmartCircuitBreaker._on_success that closes the circuit with the failure
\* count as it is
SmartOnSuccess_KeepsCount ==
    /\ consecutive_failures' = 0
    /\ IF state = HALF_OPEN
       THEN IF success_count + 1 >= success_threshold
            THEN state' = CLOSED /\ success_count' = 0 /\ UNCHANGED failure_count
            ELSE success_count' = success_count + 1
                 /\ UNCHANGED <<state, failure_count>>
       ELSE /\ failure_count' = (IF failure_count - 1 > 0 THEN failure_count - 1 ELSE 0)
            /\ UNCHANGED <<state, success_count>>

\* SmartCircuitBreaker._on_success
SmartOnSuccess ==
    /\ consecutive_failures' = 0
    /\ IF state = HALF_OPEN
       THEN IF success_count + 1 >= success_threshold
            THEN state' = CLOSED /\ failure_count' = 0 /\ success_count' = 0
            ELSE success_count' = success_count + 1
                 /\ UNCHANGED <<state, failure_count>>
       ELSE /\ failure_count' = (IF failure_count - 1 > 0 THEN failure_count - 1 ELSE 0)
            /\ UNCHANGED <<state, success_count>>

\* _on_failure comparing with > in place of >=
BaseFailureState_OffByOne(st, fc) ==
    IF fc > failure_threshold
    THEN OPEN
    ELSE IF st = HALF_OPEN THEN OPEN ELSE st

\* the state CircuitBreaker._on_failure leaves, fc being the incremented count
BaseFailureState(st, fc) ==
    IF fc >= failure_threshold
    THEN OPEN
    ELSE IF st = HALF_OPEN THEN OPEN ELSE st

\* CircuitBreaker._on_failure
BaseOnFailure ==
    /\ failure_count' = failure_count + 1
    /\ last_failure_time' = now
    /\ state' = BaseFailureState(state, failure_count + 1)
    /\ UNCHANGED <<success_count, consecutive_failures>>

\* SmartCircuitBreaker._on_failure that reopens from HALF_OPEN only on the second
\* consecutive failure
SmartOnFailure_SecondFailure ==
    /\ consecutive_failures' = consecutive_failures + 1
    /\ success_count' = 0
    /\ failure_count' = failure_count + 1
    /\ last_failure_time' = now
    /\ state' = IF state = HALF_OPEN
                THEN (IF consecutive_failures + 1 >= 2 THEN OPEN ELSE HALF_OPEN)
                ELSE BaseFailureState(state, failure_count + 1)

\* SmartCircuitBreaker._on_failure
SmartOnFailure ==
    /\ consecutive_failures' = consecutive_failures + 1
    /\ success_count' = 0
    /\ failure_count' = failure_count + 1
    /\ last_failure_time' = now
    /\ LET s1 == BaseFailureState(state, failure_count + 1)
       IN  state' = IF s1 = HALF_OPEN /\ consecutive_failures + 1 >= 2
                    THEN OPEN
                    ELSE s1

\* call(): the wrapped function returned
FuncReturns ==
    /\ pc = "in_call"
    /\ IF smart THEN SmartOnSuccess ELSE BaseOnSuccess
    /\ pc' = "idle"
    /\ outcome' = "success"
    /\ streak' = 0
    /\ UNCHANGED <<smart, failure_threshold, recovery_timeout, success_threshold,
                   last_failure_time, now, trial, callSeq, entry>>

\* call(): the wrapped function raised expected_exception
FuncRaisesExpected ==
    /\ pc = "in_call"
    /\ IF smart THEN SmartOnFailure ELSE BaseOnFailure
    /\ pc' = "idle"
    /\ outcome' = "expected"
    /\ streak' = streak + 1
    /\ UNCHANGED <<smart, failure_threshold, recovery_timeout, success_threshold,
                   now, trial, callSeq, entry>>

\* call(): the wrapped function raised an exception that is no expected_exception;
\* no except clause matches and the exception leaves call()
FuncRaisesOther ==
    /\ pc = "in_call"
    /\ pc' = "idle"
    /\ outcome' = "other"
    /\ streak' = 0
    /\ UNCHANGED <<smart, failure_threshold, recovery_timeout, success_threshold,
                   state, failure_count, last_failure_time, success_count,
                   consecutive_failures, now, trial, callSeq, entry>>

\* the clock advances, between calls or while the wrapped function runs
Tick ==
    /\ now < MaxTime
    /\ now' = now + 1
    /\ UNCHANGED <<smart, failure_threshold, recovery_timeout, success_threshold,
                   state, failure_count, last_failure_time, success_count,
                   consecutive_failures, pc, outcome, trial, callSeq, streak, entry>>

(***************************************************************************)
(* Deduplication store: FirestoreClient over one Firestore collection.     *)
(***************************************************************************)
VARIABLES
    collection,   \* document id -> document (NoDoc: no such document)
    day,          \* the date, in days: datetime.utcnow() and SERVER_TIMESTAMP
    s_op,         \* the last FirestoreClient method called
    s_url,        \* its url argument
    s_fault,      \* TRUE: the Firestore request of that call raised
    s_ret,        \* what the method returned
    marked        \* the URLs whose mark returned True and has not expired since

svars == <<collection, day, s_op, s_url, s_fault, s_ret, marked>>

Urls == 1..NumUrls
NoUrl == 0
RetentionDays == 90

\* _get_document_id: the first 20 hex digits of sha256(url); no two URLs of
\* the model collide
DocId(u) == <<"sha256", u>>

DocIds == {DocId(u) : u \in Urls}

NoDoc == [exists |-> FALSE]

\* doc_data of mark_url_processed: url, processed_at and expire_at (the
\* metadata fields, copied from the caller's dictionary, are left out)
NewDoc(u) ==
    [exists |-> TRUE, url |-> u, processed_at |-> day,
     expire_at |-> day + RetentionDays]

StoreInit ==
    /\ collection = [d \in DocIds |-> NoDoc]
    /\ day = 0
    /\ s_op = "none"
    /\ s_url = NoUrl
    /\ s_fault = FALSE
    /\ s_ret = "none"
    /\ marked = {}

\* is_url_processed: doc.exists, and False when the request raises
\* a lookup that never finds the record
IsUrlProcessed_AlwaysFalse(u, fault) == FALSE

\* a lookup that reports the URL processed when the request raises
IsUrlProcessed_FailClosed(u, fault) ==
    IF fault THEN TRUE ELSE collection[DocId(u)].exists

IsUrlProcessed(u, fault) ==
    IF fault THEN FALSE ELSE collection[DocId(u)].exists

\* mark_url_processed that returns True without writing the document
CollectionAfterMark_NoWrite(u, fault) == collection

\* mark_url_processed: the collection after document(doc_id).set(doc_data);
\* nothing is written when the request raises
CollectionAfterMark(u, fault) ==
    IF fault
    THEN collection
    ELSE [collection EXCEPT ![DocId(u)] = NewDoc(u)]

\* mark_url_processed: its return value
MarkReturn(fault) == IF fault THEN "False" ELSE "True"

BoolStr(b) == IF b THEN "True" ELSE "False"

\* the URLs marked and not expired, after mark_url_processed(u)
MarkedAfterMark(u, fault) ==
    IF MarkReturn(fault) = "True" THEN marked \cup {u} ELSE marked

\* a call of is_url_processed(u)
StoreLookup(u, fault) ==
    /\ s_op' = "lookup"
    /\ s_url' = u
    /\ s_fault' = fault
    /\ s_ret' = BoolStr(IsUrlProcessed(u, fault))
    /\ UNCHANGED <<collection, day, marked>>

\* a call of mark_url_processed(u, metadata)
StoreMark(u, fault) ==
    /\ collection' = CollectionAfterMark(u, fault)
    /\ s_op' = "mark"
    /\ s_url' = u
    /\ s_fault' = fault
    /\ s_ret' = MarkReturn(fault)
    /\ marked' = MarkedAfterMark(u, fault)
    /\ UNCHANGED day

\* the TTL policy on expire_at, and cleanup_old_entries(90): a document is
\* deleted once it is RetentionDays old
ExpireRecord(u) ==
    /\ collection[DocId(u)].exists
    /\ day >= collection[DocId(u)].expire_at
    /\ collection' = [collection EXCEPT ![DocId(u)] = NoDoc]
    /\ marked' = marked \ {u}
    /\ UNCHANGED <<day, s_op, s_url, s_fault, s_ret>>

\* the date advances
DayTick ==
    /\ day + DayStep <= MaxDay
    /\ day' = day + DayStep
    /\ UNCHANGED <<collection, s_op, s_url, s_fault, s_ret, marked>>

(***************************************************************************)
(* Digest orchestrator: main_function_digest of main_digest_fixed.py, run  *)
(* against the store above and against collaborators (scraper, LLM client, *)
(* Slack digest) that return a value, return nothing, or raise.            *)
(***************************************************************************)
VARIABLES
    p_pc,                  \* where the handler is
    i,                     \* the index of the loop's current item, from 1
    taken,                 \* the items the loops have taken from the two lists
    step,                  \* where the loop body is
    item,                  \* article / episode: its url, and whether it has a description
    cur,                   \* what each call made for the current item gave
    good,                  \* per kind: the items seen unprocessed, with content and a summary
    news_items,            \* SlackDigest.news_items (the url of each)
    podcast_items,         \* SlackDigest.podcast_items (the url of each)
    errors,                \* SlackDigest.stats['errors']
    ai_tip,                \* SlackDigest.ai_tip is set
    tool_spotlight,        \* SlackDigest.tool_spotlight: "none", "article", "generated"
    tool_spotlight_found,
    elapsed,               \* elapsed, as last computed: time.time() - start_time
    sends,                 \* calls of send_digest in this invocation
    send_result            \* what send_digest returned

pvars == <<p_pc, i, taken, step, item, cur, good, news_items, podcast_items,
           errors, ai_tip, tool_spotlight, tool_spotlight_found, elapsed, sends,
           send_result>>

max_news == 5
max_podcasts == 10
NewsBudget == 450
PodcastBudget == 480

\* the elapsed times told apart: within both budgets, over the first, over both
TimePoints == {0, NewsBudget + 1, PodcastBudget + 1}

Min(a, b) == IF a < b THEN a ELSE b

Blank == [lookup |-> "none", content |-> "none", summary |-> "none",
          tool |-> "none", mark |-> "none", error |-> FALSE]

NoItem == [url |-> NoUrl, description |-> FALSE]

\* the state of an invocation when it starts
RunInit ==
    /\ p_pc = "start"
    /\ i = 1
    /\ taken = 0
    /\ step = "check"
    /\ item = NoItem
    /\ cur = Blank
    /\ good = [news |-> 0, podcast |-> 0]
    /\ news_items = <<>>
    /\ podcast_items = <<>>
    /\ errors = 0
    /\ ai_tip = FALSE
    /\ tool_spotlight = "none"
    /\ tool_spotlight_found = FALSE
    /\ elapsed = 0
    /\ sends = 0
    /\ send_result = "none"

PipelineParked == RunInit

\* the item just finished counts if the store reported it unprocessed and the
\* content fetch and the summarization each returned something
Qualifies(c) ==
    c.lookup \in {"False", "failed"} /\ c.content = "ok" /\ c.summary = "ok"

Fold(g, c, kind) ==
    IF Qualifies(c) THEN [g EXCEPT ![kind] = g[kind] + 1] ELSE g

\* a handler that goes on without the configuration
Start_SkipsValidation(config_valid) ==
    /\ p_pc = "start"
    /\ p_pc' = "tip"
    /\ UNCHANGED <<i, taken, step, item, cur, good, news_items, podcast_items,
                   errors, ai_tip, tool_spotlight, tool_spotlight_found, elapsed,
                   sends, send_result>>
    /\ UNCHANGED svars

\* lines 36-50: Config.is_valid() and the construction of the clients
Start(config_valid) ==
    /\ p_pc = "start"
    /\ p_pc' = IF config_valid THEN "tip" ELSE "raised"
    /\ UNCHANGED <<i, taken, step, item, cur, good, news_items, podcast_items,
                   errors, ai_tip, tool_spotlight, tool_spotlight_found, elapsed,
                   sends, send_result>>
    /\ UNCHANGED svars

\* lines 56-66: generate_ai_tip
GenerateTip(r) ==
    /\ p_pc = "tip"
    /\ p_pc' = "feeds"
    /\ ai_tip' = (r = "ok")
    /\ errors' = IF r = "raise" THEN errors + 1 ELSE errors
    /\ UNCHANGED <<i, taken, step, item, cur, good, news_items, podcast_items,
                   tool_spotlight, tool_spotlight_found, elapsed, sends, send_result>>
    /\ UNCHANGED svars

\* lines 69-80: fetch_all_feeds, and ResourceGuard("news_processing"), whose
\* __enter__ raises MemoryError when memory is short; the two lists come to
\* light item by item as the loops go through them
FetchFeeds(memory_ok) ==
    /\ p_pc = "feeds"
    /\ p_pc' = IF memory_ok THEN "news" ELSE "raised"
    /\ i' = 1
    /\ step' = "check"
    /\ UNCHANGED <<taken, item, cur, good, news_items, podcast_items, errors, ai_tip,
                   tool_spotlight, tool_spotlight_found, elapsed, sends, send_result>>
    /\ UNCHANGED svars

\* a slice that keeps the whole list
Capped_Whole(kind) == MaxListed + 1

\* the most items a loop goes through: the [:max_news], [:max_podcasts] slices
Capped(kind) == IF kind = "news" THEN max_news ELSE max_podcasts

Budget(kind) == IF kind = "news" THEN NewsBudget ELSE PodcastBudget

InLoop == p_pc \in {"news", "podcast"}

\* the timeout test in front of each item, on the elapsed time t just computed
TimedOut(kind, t) == t > Budget(kind)

\* the place after a loop: the ResourceGuard of the podcast loop after the
\* news loop, the tool spotlight after the podcast loop
AfterLoop(kind) == IF kind = "news" THEN "podcast_guard" ELSE "spotlight"

\* leaving a loop, for the podcast loop or the tool spotlight
LeaveLoopFor(place) ==
    /\ p_pc' = place
    /\ good' = Fold(good, cur, p_pc)
    /\ cur' = Blank
    /\ i' = 1
    /\ item' = NoItem
    /\ UNCHANGED <<taken, step, news_items, podcast_items, errors, ai_tip,
                   tool_spotlight, tool_spotlight_found, sends, send_result>>
    /\ UNCHANGED svars

LeaveLoop == LeaveLoopFor(AfterLoop(p_pc))

\* a timeout test that raises in place of break
LoopBreaks_Raises(t) ==
    /\ InLoop
    /\ step = "check"
    /\ i <= Capped(p_pc)
    /\ t >= elapsed
    /\ TimedOut(p_pc, t)
    /\ elapsed' = t
    /\ p_pc' = "raised"
    /\ UNCHANGED <<i, taken, step, item, cur, good, news_items, podcast_items,
                   errors, ai_tip, tool_spotlight, tool_spotlight_found, sends,
                   send_result>>
    /\ UNCHANGED svars

\* lines 81, 143: the slice has no further item (exhausted is TRUE when it is
\* the list that ends there)
LoopEnds(exhausted) ==
    /\ InLoop
    /\ step = "check"
    /\ exhausted \/ i > Capped(p_pc)
    /\ elapsed' = elapsed
    /\ LeaveLoop

\* lines 83-87, 145-149: there is a further item, and the elapsed time t
\* computed in front of it is over the budget: break
LoopBreaks(t) ==
    /\ InLoop
    /\ step = "check"
    /\ i <= Capped(p_pc)
    /\ t >= elapsed
    /\ TimedOut(p_pc, t)
    /\ elapsed' = t
    /\ LeaveLoop

\* line 142: ResourceGuard("podcast_processing"), whose __enter__ raises
\* MemoryError when memory is short
EnterPodcasts(memory_ok) ==
    /\ p_pc = "podcast_guard"
    /\ p_pc' = IF memory_ok THEN "podcast" ELSE "raised"
    /\ UNCHANGED <<i, taken, step, item, cur, good, news_items, podcast_items,
                   errors, ai_tip, tool_spotlight, tool_spotlight_found, elapsed,
                   sends, send_result>>
    /\ UNCHANGED svars

\* lines 81-87, 143-149: the next item, the elapsed time t computed in front
\* of it being within the budget (the description of an article is not read:
\* articles are drawn with one)
TakeItem(u, d, t) ==
    /\ InLoop
    /\ step = "check"
    /\ i <= Capped(p_pc)
    /\ t >= elapsed
    /\ ~TimedOut(p_pc, t)
    /\ elapsed' = t
    /\ taken < MaxItems
    /\ taken' = taken + 1
    /\ p_pc = "news" => d
    /\ item' = [url |-> u, description |-> d]
    /\ good' = Fold(good, cur, p_pc)
    /\ cur' = Blank
    /\ step' = "lookup"
    /\ UNCHANGED <<p_pc, i, news_items, podcast_items, errors, ai_tip,
                   tool_spotlight, tool_spotlight_found, sends, send_result>>
    /\ UNCHANGED svars

\* continue, and the end of the loop body: on to the next item
Continue ==
    /\ i' = i + 1
    /\ step' = "check"

\* an except clause that continues without increment_errors
ItemExcept_Swallows ==
    /\ errors' = errors
    /\ Continue

\* lines 132-135, 180-183: the except clause of the loop body
ItemExcept ==
    /\ errors' = errors + 1
    /\ Continue

\* what the loop has of a lookup that returned: "True", "False", or "failed"
\* when the request to the store raised inside is_url_processed
LookupSeen(u, fault) ==
    IF fault THEN "failed" ELSE BoolStr(IsUrlProcessed(u, fault))

\* lines 89-92, 151-154: is_url_processed; r = "raise": the call raises
Lookup(r, fault) ==
    /\ InLoop
    /\ step = "lookup"
    /\ IF r = "raise"
       THEN /\ ItemExcept
            /\ cur' = [cur EXCEPT !.lookup = "raise", !.error = TRUE]
            /\ UNCHANGED svars
       ELSE /\ UNCHANGED svars
            /\ cur' = [cur EXCEPT !.lookup = LookupSeen(item.url, fault)]
            /\ errors' = errors
            /\ IF IsUrlProcessed(item.url, fault)
               THEN Continue
               ELSE /\ step' = IF p_pc = "news" THEN "fetch" ELSE "summarize"
                    /\ i' = i
    /\ UNCHANGED <<p_pc, taken, item, good, news_items, podcast_items, ai_tip,
                   tool_spotlight, tool_spotlight_found, elapsed, sends, send_result>>

\* a content fetch whose empty result is handled like an exception
FetchContent_NullCounts(r) ==
    /\ p_pc = "news"
    /\ step = "fetch"
    /\ cur' = [cur EXCEPT !.content = r, !.error = (r = "raise")]
    /\ CASE r = "ok" -> step' = "summarize" /\ UNCHANGED <<i, errors>>
         [] r = "null" -> ItemExcept
         [] r = "raise" -> ItemExcept
    /\ UNCHANGED <<p_pc, taken, item, good, news_items, podcast_items, ai_tip,
                   tool_spotlight, tool_spotlight_found, elapsed, sends, send_result>>
    /\ UNCHANGED svars

\* lines 94-100: fetch_article_content
FetchContent(r) ==
    /\ p_pc = "news"
    /\ step = "fetch"
    /\ cur' = [cur EXCEPT !.content = r, !.error = (r = "raise")]
    /\ CASE r = "ok" -> step' = "summarize" /\ UNCHANGED <<i, errors>>
         [] r = "null" -> Continue /\ UNCHANGED errors
         [] r = "raise" -> ItemExcept
    /\ UNCHANGED <<p_pc, taken, item, good, news_items, podcast_items, ai_tip,
                   tool_spotlight, tool_spotlight_found, elapsed, sends, send_result>>
    /\ UNCHANGED svars

\* lines 102-108, 129-130: summarize_article and add_news_item;
\* lines 156-166, 175-178: the description test, summarize_podcast and add_podcast_item
SummarizeThen(r, after) ==
    /\ InLoop
    /\ step = "summarize"
    /\ IF p_pc = "podcast" /\ ~item.description
       THEN /\ cur' = [cur EXCEPT !.content = "null"]
            /\ Continue
            /\ UNCHANGED <<news_items, podcast_items, errors>>
       ELSE /\ cur' = [cur EXCEPT !.content = "ok", !.summary = r, !.error = (r = "raise")]
            /\ CASE r = "ok" ->
                      /\ news_items' = IF p_pc = "news"
                                       THEN Append(news_items, item.url)
                                       ELSE news_items
                      /\ podcast_items' = IF p_pc = "podcast"
                                          THEN Append(podcast_items, item.url)
                                          ELSE podcast_items
                      /\ step' = after
                      /\ UNCHANGED <<i, errors>>
                 [] r = "null" ->
                      /\ Continue
                      /\ UNCHANGED <<news_items, podcast_items, errors>>
                 [] r = "raise" ->
                      /\ ItemExcept
                      /\ UNCHANGED <<news_items, podcast_items>>
    /\ UNCHANGED <<p_pc, taken, item, good, ai_tip, tool_spotlight,
                   tool_spotlight_found, elapsed, sends, send_result>>
    /\ UNCHANGED svars

\* a loop that asks for a tool after every summarized article
Summarize_AlwaysExtracts(r) ==
    SummarizeThen(r, IF p_pc = "news" THEN "extract" ELSE "mark")

\* lines 110-111: the tool extraction follows for an article while no tool
\* was found, the mark otherwise
Summarize(r) ==
    SummarizeThen(r, IF p_pc = "news" /\ ~tool_spotlight_found
                     THEN "extract"
                     ELSE "mark")

\* lines 110-120: extract_tool_from_article and set_tool_spotlight
ExtractTool(r) ==
    /\ p_pc = "news"
    /\ step = "extract"
    /\ cur' = [cur EXCEPT !.tool = r, !.error = (r = "raise")]
    /\ CASE r = "found" ->
              /\ tool_spotlight' = "article"
              /\ tool_spotlight_found' = TRUE
              /\ step' = "mark"
              /\ UNCHANGED <<i, errors>>
         [] r = "null" ->
              /\ step' = "mark"
              /\ UNCHANGED <<i, errors, tool_spotlight, tool_spotlight_found>>
         [] r = "raise" ->
              /\ ItemExcept
              /\ UNCHANGED <<tool_spotlight, tool_spotlight_found>>
    /\ UNCHANGED <<p_pc, taken, item, good, news_items, podcast_items, ai_tip,
                   elapsed, sends, send_result>>
    /\ UNCHANGED svars

\* lines 122-128, 168-174: mark_url_processed, its return value unused;
\* r = "raise": the call raises
Mark(r, fault) ==
    /\ InLoop
    /\ step = "mark"
    /\ IF r = "raise"
       THEN /\ ItemExcept
            /\ cur' = [cur EXCEPT !.mark = "raise", !.error = TRUE]
            /\ UNCHANGED svars
       ELSE /\ collection' = CollectionAfterMark(item.url, fault)
            /\ marked' = MarkedAfterMark(item.url, fault)
            /\ UNCHANGED <<day, s_op, s_url, s_fault, s_ret>>
            /\ cur' = [cur EXCEPT !.mark = MarkReturn(fault)]
            /\ Continue
            /\ errors' = errors
    /\ UNCHANGED <<p_pc, taken, item, good, news_items, podcast_items, ai_tip,
                   tool_spotlight, tool_spotlight_found, elapsed, sends, send_result>>

\* lines 185-198: generate_tool_spotlight when no article gave a tool
Spotlight(r) ==
    /\ p_pc = "spotlight"
    /\ p_pc' = "send"
    /\ tool_spotlight' = IF ~tool_spotlight_found /\ r = "found"
                         THEN "generated"
                         ELSE tool_spotlight
    /\ UNCHANGED <<i, taken, step, item, cur, good, news_items, podcast_items,
                   errors, ai_tip, tool_spotlight_found, elapsed, sends, send_result>>
    /\ UNCHANGED svars

\* send_digest has nothing to post (slack_digest_v2.py, lines 204-206)
NothingToSend == news_items = <<>> /\ podcast_items = <<>> /\ ~ai_tip

\* lines 200-230: send_digest; when it raises, the handler reports and re-raises
Send(r) ==
    /\ p_pc = "send"
    /\ sends' = sends + 1
    /\ send_result' = IF NothingToSend THEN "False" ELSE r
    /\ p_pc' = IF ~NothingToSend /\ r = "raise" THEN "raised" ELSE "returned"
    /\ UNCHANGED <<i, taken, step, item, cur, good, news_items, podcast_items,
                   errors, ai_tip, tool_spotlight, tool_spotlight_found, elapsed>>
    /\ UNCHANGED svars

Outcomes == {"ok", "null", "raise"}

ToolOutcomes == {"found", "null", "raise"}

Items == {[url |-> u, description |-> d] : u \in Urls, d \in BOOLEAN}

(***************************************************************************)
(* Summarization client: LLMClient._make_request of llm_client.py, behind  *)
(* rate_limit('openrouter') and circuit_breaker(3, 120, openai.APIError).  *)
(* The breaker of the decorator is the CircuitBreaker above; while the     *)
(* breaker is "in_call", _make_request runs its retry loop.                *)
(***************************************************************************)
VARIABLES
    calls,                 \* calls of the decorated _make_request so far
    call_counts,           \* RateLimiter.call_counts['openrouter']
    attempt,               \* the loop variable of _make_request
    api_calls,             \* chat.completions.create invocations of the last call
    api_errors,            \* those of them that raised openai.APIError
    c_ret,                 \* what the last call returned
    api_streak,            \* consecutive calls, each invocation of which raised APIError
    sleeps                  \* the time.sleep calls of the last call: attempt, error, seconds

cvars == <<calls, call_counts, attempt, api_calls, api_errors, c_ret, api_streak,
           sleeps>>

ClientFailureThreshold == 3
ClientRecoveryTimeout == 120
calls_per_minute == 30
MAX_RETRIES == 2
RETRY_DELAY == 1

\* the arguments of the decorator, and a process that has made no call
ClientInit ==
    /\ calls = 0
    /\ call_counts = 0
    /\ attempt = 0
    /\ api_calls = 0
    /\ api_errors = 0
    /\ c_ret = "none"
    /\ api_streak = 0
    /\ sleeps = << >>

ClientParked == ClientInit

\* RateLimiter.wait_if_needed: the counter after the call, minute_over telling
\* whether reset_times has passed; the sleeps let the clock advance
CountAfterWait(minute_over) ==
    LET c1 == IF minute_over THEN 0 ELSE call_counts
        c2 == IF c1 >= calls_per_minute THEN 0 ELSE c1
    IN  c2 + 1

\* the decorated method is called: the wrapper of rate_limit waits and counts,
\* then the wrapper of circuit_breaker runs breaker.call, which rejects the
\* call or invokes _make_request
ClientCall(minute_over) ==
    /\ calls < MaxCalls
    /\ calls' = calls + 1
    /\ call_counts' = CountAfterWait(minute_over)
    /\ CallRejected \/ CallInvoke
    /\ attempt' = 0
    /\ api_calls' = 0
    /\ api_errors' = 0
    /\ c_ret' = IF outcome' = "rejected" THEN "rejected" ELSE "pending"
    /\ sleeps' = << >>
    /\ UNCHANGED api_streak

\* _make_request returns v: breaker.call sees a success
RequestReturns(v, errs) ==
    /\ FuncReturns
    /\ c_ret' = v
    /\ attempt' = attempt
    /\ api_streak' = IF errs = api_calls + 1 THEN api_streak + 1 ELSE 0

\* the except clause goes round the loop again, or the loop is over and
\* _make_request returns None
NextAttempt(errs) ==
    IF attempt + 1 < MAX_RETRIES
    THEN /\ attempt' = attempt + 1
         /\ UNCHANGED <<bvars, c_ret, api_streak>>
    ELSE RequestReturns("None", errs)

RECURSIVE Pow2(_)
Pow2(n) == IF n = 0 THEN 1 ELSE 2 * Pow2(n - 1)

\* a retry loop that sleeps the same time after every rate limit error
RateLimitWait_Flat(n) == 5

\* line 284: wait_time = min(2 ** attempt * 5, 60)
RateLimitWait(n) == Min(Pow2(n) * 5, 60)

\* lines 282-293: the sleep of the except clause that caught r in attempt n;
\* none after the last attempt of an API error, none for other outcomes
SleepAfter(r, n) ==
    CASE r = "RateLimitError" -> <<[attempt |-> n, error |-> r, seconds |-> RateLimitWait(n)]>>
      [] r = "APIError" /\ n < MAX_RETRIES - 1 ->
             <<[attempt |-> n, error |-> r, seconds |-> RETRY_DELAY]>>
      [] OTHER -> << >>

\* lines 243-296: one round of the retry loop, r being what
\* chat.completions.create does
ApiAttempt(r) ==
    /\ pc = "in_call"
    /\ attempt < MAX_RETRIES
    /\ api_calls' = api_calls + 1
    /\ api_errors' = IF r \in {"RateLimitError", "APIError"}
                     THEN api_errors + 1
                     ELSE api_errors
    /\ CASE r = "content" -> RequestReturns("value", api_errors)
         [] r = "empty" -> RequestReturns("None", api_errors)
         [] r = "RateLimitError" -> NextAttempt(api_errors + 1)
         [] r = "APIError" ->
              IF attempt < MAX_RETRIES - 1
              THEN NextAttempt(api_errors + 1)
              ELSE RequestReturns("None", api_errors + 1)
         [] r = "Exception" -> RequestReturns("None", api_errors)
    /\ sleeps' = sleeps \o SleepAfter(r, attempt)
    /\ UNCHANGED <<calls, call_counts>>

ApiOutcomes == {"content", "empty", "RateLimitError", "APIError", "Exception"}

(***************************************************************************)
(* Configuration and the outer except clause of main_digest_fixed.py.      *)
(***************************************************************************)
VARIABLES
    webhook_url,           \* Config.SLACK_WEBHOOK_URL is set
    config_seen,           \* what Config.is_valid() gave: "unchecked", "valid", "invalid"
    error_posts            \* posts of send_error_notification to the webhook

evars == <<webhook_url, config_seen, error_posts>>

\* the environment of the process: the webhook URL is set or not
ConfigInit ==
    /\ webhook_url \in BOOLEAN
    /\ config_seen = "unchecked"
    /\ error_posts = 0

ConfigParked == ConfigInit /\ webhook_url

\* lines 213-230: an exception that leaves the body of the handler is logged,
\* SlackClient().send_error_notification posts it to the webhook when the
\* webhook URL is set, and it is raised again
PostsAfter(place) ==
    IF place = "raised" /\ webhook_url THEN error_posts + 1 ELSE error_posts

ExceptHandler ==
    /\ error_posts' = PostsAfter(p_pc')
    /\ UNCHANGED <<webhook_url, config_seen>>

\* lines 36-50 and 213-230: Config.is_valid() is true only when the webhook URL
\* (and the other three values) are set
Validate(config_valid) ==
    /\ config_valid => webhook_url
    /\ Start(config_valid)
    /\ config_seen' = IF config_valid THEN "valid" ELSE "invalid"
    /\ error_posts' = PostsAfter(p_pc')
    /\ UNCHANGED webhook_url

(***************************************************************************)
(* Digest orchestrator with an alarm: main_function_digest of              *)
(* main_function_digest.py. It runs the same steps on the same digest, with *)
(* no slice of the lists, no timeout test, no tool extraction and no tool   *)
(* spotlight; SIGALRM makes timeout_handler raise TimeoutError wherever the *)
(* handler is.                                                             *)
(***************************************************************************)
VARIABLES
    alarm                  \* "unset", "armed", "fired" or "cancelled"

avars == <<alarm>>

AlarmParked == alarm = "unset"

\* lines 36-69: signal.alarm, Config.is_valid() and the construction of the clients
AlarmStart(config_valid) ==
    /\ alarm' = "armed"
    /\ Start(config_valid)

\* lines 90, 129: the next item of the list
AlarmTakeItem(u, d) ==
    /\ InLoop
    /\ step = "check"
    /\ taken < MaxItems
    /\ taken' = taken + 1
    /\ p_pc = "news" => d
    /\ item' = [url |-> u, description |-> d]
    /\ good' = Fold(good, cur, p_pc)
    /\ cur' = Blank
    /\ step' = "lookup"
    /\ UNCHANGED <<p_pc, i, news_items, podcast_items, errors, ai_tip,
                   tool_spotlight, tool_spotlight_found, elapsed, sends, send_result>>
    /\ UNCHANGED <<svars, alarm>>

\* lines 90, 129: the list has no further item
AlarmLoopEnds ==
    /\ InLoop
    /\ step = "check"
    /\ LeaveLoopFor(IF p_pc = "news" THEN "podcast_guard" ELSE "send")
    /\ UNCHANGED <<elapsed, alarm>>

\* lines 166-176: send_digest
AlarmSend(r) ==
    /\ p_pc = "send"
    /\ sends' = sends + 1
    /\ send_result' = IF NothingToSend THEN "False" ELSE r
    /\ p_pc' = IF ~NothingToSend /\ r = "raise" THEN "raised" ELSE "cancel"
    /\ UNCHANGED <<i, taken, step, item, cur, good, news_items, podcast_items,
                   errors, ai_tip, tool_spotlight, tool_spotlight_found, elapsed>>
    /\ UNCHANGED <<svars, alarm>>

\* lines 178-180: signal.alarm(0)
AlarmCancel ==
    /\ p_pc = "cancel"
    /\ p_pc' = "returned"
    /\ alarm' = "cancelled"
    /\ UNCHANGED <<i, taken, step, item, cur, good, news_items, podcast_items,
                   errors, ai_tip, tool_spotlight, tool_spotlight_found, elapsed,
                   sends, send_result>>
    /\ UNCHANGED svars

\* lines 182-196: except TimeoutError: send_digest, whatever it raises being
\* dropped, and return; begun counts a send_digest that the alarm interrupted
TimeoutReturn(begun) ==
    /\ sends' = sends + begun + 1
    /\ p_pc' = "returned"
    /\ UNCHANGED <<i, taken, step, item, cur, good, news_items, podcast_items,
                   errors, ai_tip, tool_spotlight, tool_spotlight_found, elapsed,
                   send_result>>
    /\ UNCHANGED svars

\* the alarm goes off and timeout_handler raises TimeoutError (an Exception)
\* where the handler is: inside the try of the tip or of a loop body the
\* except Exception clause there takes it; inside fetch_feed its except
\* Exception clause takes it (caught) or it leaves fetch_all_feeds; elsewhere
\* it reaches except TimeoutError, during send_digest (begun) or not
AlarmFires(caught, begun) ==
    /\ alarm = "armed"
    /\ alarm' = "fired"
    /\ CASE p_pc = "tip" ->
              /\ caught /\ begun = 0
              /\ p_pc' = "feeds"
              /\ errors' = errors + 1
              /\ UNCHANGED <<i, taken, step, item, cur, good, news_items,
                             podcast_items, ai_tip, tool_spotlight,
                             tool_spotlight_found, elapsed, sends, send_result>>
              /\ UNCHANGED svars
         [] p_pc = "feeds" ->
              /\ begun = 0
              /\ IF caught THEN UNCHANGED <<pvars, svars>> ELSE TimeoutReturn(0)
         [] InLoop /\ step # "check" ->
              /\ caught /\ begun = 0
              /\ ItemExcept
              /\ cur' = [cur EXCEPT !.error = TRUE]
              /\ UNCHANGED <<p_pc, taken, item, good, news_items, podcast_items,
                             ai_tip, tool_spotlight, tool_spotlight_found,
                             elapsed, sends, send_result>>
              /\ UNCHANGED svars
         [] (InLoop /\ step = "check") \/ p_pc \in {"podcast_guard", "cancel"} ->
              /\ ~caught /\ begun = 0
              /\ TimeoutReturn(0)
         [] p_pc = "send" ->
              /\ ~caught
              /\ TimeoutReturn(begun)
         [] p_pc \in {"start", "returned", "raised"} -> FALSE

(***************************************************************************)
(* Rate limiter: RateLimiter.wait_if_needed of rate_limiter.py, called by  *)
(* one thread. The clock counts ticks, Minute of them to the minute, and   *)
(* each reading of the clock may come later than the one before.           *)
(***************************************************************************)
VARIABLES
    rl_calls_per_minute,   \* RateLimiter.calls_per_minute
    rl_clock,              \* the time of the last reading of the clock
    rl_last_call_times,    \* RateLimiter.last_call_times
    rl_call_counts,        \* RateLimiter.call_counts
    rl_reset_times,        \* RateLimiter.reset_times (NoTime: key not yet in the dict)
    rl_returns,            \* per key, the times at which wait_if_needed returned
    rl_last                \* the last call: its key, whether it found the limit hit, ...

lvars == <<rl_calls_per_minute, rl_clock, rl_last_call_times, rl_call_counts,
           rl_reset_times, rl_returns, rl_last>>

Minute == 6

Keys == {"openrouter", "rss"}

\* the rates for which 60.0 / calls_per_minute is a whole number of ticks
Cpms == {c \in 1..MaxCpm : Minute % c = 0}

\* self.interval
Interval == Minute \div rl_calls_per_minute

NoCall == [key |-> "none", limited |-> FALSE, reset |-> 0, slept |-> FALSE]

\* __init__; the process starts a minute or more after the epoch, where the
\* default 0.0 of last_call_times lies
LimiterInit ==
    /\ rl_calls_per_minute \in Cpms
    /\ rl_clock = Minute
    /\ rl_last_call_times = [k \in Keys |-> 0]
    /\ rl_call_counts = [k \in Keys |-> 0]
    /\ rl_reset_times = [k \in Keys |-> NoTime]
    /\ rl_returns = [k \in Keys |-> <<>>]
    /\ rl_last = NoCall

LimiterParked == LimiterInit /\ rl_calls_per_minute = 1

\* a limiter that does not enforce the interval
IntervalSleep_None(time_since_last) == 0

\* lines 57-62: the sleep that keeps the minimum interval between calls
IntervalSleep(time_since_last) ==
    IF time_since_last < Interval THEN Interval - time_since_last ELSE 0

\* the calls of wait_if_needed so far
Waits == Len(rl_returns["openrouter"]) + Len(rl_returns["rss"])

\* wait_if_needed(key), the call coming gap ticks after the last reading of the
\* clock; late is the place of the call where a tick passes: in front of the
\* clock reading of line 41, 43, 47 or 65 (1 to 4), at the end of the sleep of
\* line 51 (5), or nowhere (0)
WaitIfNeeded(key, gap, late) ==
    LET d == [k \in 1..5 |-> IF late = k THEN 1 ELSE 0]
        current_time == rl_clock + gap
        last_call == rl_last_call_times[key]
        t2 == current_time + d[1]
        reset_a == IF rl_reset_times[key] = NoTime
                   THEN t2 + Minute
                   ELSE rl_reset_times[key]
        passed == t2 >= reset_a
        t3 == IF passed THEN t2 + d[2] ELSE t2
        count_a == IF passed THEN 0 ELSE rl_call_counts[key]
        reset_b == IF passed THEN t3 + Minute ELSE reset_a
        limited == count_a >= rl_calls_per_minute
        t4 == IF limited THEN t3 + d[3] ELSE t3
        sleep_time == reset_b - t4
        slept == limited /\ sleep_time > 0
        t5 == IF slept THEN t4 + sleep_time + d[5] ELSE t4
        count_b == IF slept THEN 0 ELSE count_a
        reset_c == IF slept THEN t5 + Minute ELSE reset_b
        time_since_last == current_time - last_call
        t6 == t5 + IntervalSleep(time_since_last)
        t7 == t6 + d[4]
    IN  /\ Waits < MaxWaits
        /\ rl_clock' = t7
        /\ rl_last_call_times' = [rl_last_call_times EXCEPT ![key] = t7]
        /\ rl_call_counts' = [rl_call_counts EXCEPT ![key] = count_b + 1]
        /\ rl_reset_times' = [rl_reset_times EXCEPT ![key] = reset_c]
        /\ rl_returns' = [rl_returns EXCEPT ![key] = Append(@, t7)]
        /\ rl_last' = [key |-> key, limited |-> limited /\ ~passed,
                       reset |-> reset_b, slept |-> slept]
        /\ UNCHANGED rl_calls_per_minute

LatePlaces == 0..5

(***************************************************************************)
(* Relevance classifier: AIContentFilter of ai_content_filter.py.  A text  *)
(* is told by the phrases of the keyword tables it contains; of each table *)
(* the model keeps one or two entries.  A field of an x is a text, is   *)
(* missing from the dictionary, or is None.                                *)
(***************************************************************************)
VARIABLES
    x_item,                \* the argument of is_ai_related
    x_result,              \* "none", or what the call gave: "True", "False", "AttributeError"
    batch,                 \* the argument of filter_items
    filtered,              \* the outcome of filter_items(batch)
    refiltered             \* the outcome of filter_items on the list it returned

xvars == <<x_item, x_result, batch, filtered, refiltered>>

PRIMARY_AI_KEYWORDS == {"chatgpt", "openai"}
SECONDARY_AI_KEYWORDS == {"chatbot", "ai tool"}
CONTEXT_KEYWORDS == {"launches ai"}
EXCLUDE_PATTERNS == {<<"laptop", "review">>}
REQUIRES_STRONG_CONTEXT == {"google"}
legal_privacy_keywords == {"lawsuit"}
ai_companies == {"openai", "deepmind"}
ai_specific_feeds == {"MarkTechPost", "Analytics India Magazine"}

\* re.search(r'\(ai[^)]*\)', title)
ParenthesisedAi == "(ai)"

Phrases ==
    PRIMARY_AI_KEYWORDS \cup SECONDARY_AI_KEYWORDS \cup CONTEXT_KEYWORDS
        \cup {"laptop", "review"} \cup REQUIRES_STRONG_CONTEXT
        \cup legal_privacy_keywords \cup ai_companies \cup {ParenthesisedAi}

\* the values of a field: a text with the phrases within its first 200
\* characters and those after them, no such key, or None
Text(early, late) == [form |-> "text", early |-> early, late |-> late]
Missing == [form |-> "missing", early |-> {}, late |-> {}]
Null == [form |-> "None", early |-> {}, late |-> {}]

RECURSIVE SeqsUpTo(_, _)
SeqsUpTo(S, n) ==
    IF n = 0 THEN {<< >>}
    ELSE LET shorter == SeqsUpTo(S, n - 1)
         IN  shorter \cup {Append(q, x) : q \in {z \in shorter : Len(z) = n - 1}, x \in S}

UpTo(S, n) == {T \in SUBSET S : Cardinality(T) <= n}

Titles == {Text(T, {}) : T \in UpTo(Phrases, MaxTitlePhrases)}

Descriptions ==
    {Text(T, {}) : T \in UpTo(Phrases, MaxDescriptionPhrases)}
        \cup {Text({}, T) : T \in UpTo(Phrases, MaxDescriptionPhrases)}

FeedNames == {"MarkTechPost", "TechRepublic AI"}

FilterItems ==
    [title : Titles \cup {Missing, Null},
     description : Descriptions \cup {Missing, Null},
     feed_name : FeedNames \cup {"<missing>", "<None>"}]

\* item.get(key, ''): the text, the empty text when the key is missing
Get(field) == IF field.form = "text" THEN field ELSE Text({}, {})

\* lines 93-94: item.get('title', '').lower() and the same for the
\* description raise AttributeError when the value is None
LowerRaises(x) == x.title.form = "None" \/ x.description.form = "None"

\* a classifier that looks at the exclusion pairs before the allowlist
is_ai_related_ExclusionFirst(x) ==
    LET title == Get(x.title).early
        full_text == title \cup Get(x.description).early \cup Get(x.description).late
    IN  IF \E p \in EXCLUDE_PATTERNS : p[1] \in full_text /\ p[2] \in full_text
        THEN FALSE
        ELSE x.feed_name \in ai_specific_feeds
                 \/ title \cap PRIMARY_AI_KEYWORDS # {}

\* lines 83-192: the cascade of is_ai_related, for an item whose title and
\* description are texts or missing
is_ai_related(x) ==
    LET title == Get(x.title).early
        description == Get(x.description)
        full_text == title \cup description.early \cup description.late
        title_and_early_desc == title \cup description.early
        secondary_matches == full_text \cap SECONDARY_AI_KEYWORDS
    IN  IF x.feed_name \in ai_specific_feeds THEN TRUE
        ELSE IF \E p \in EXCLUDE_PATTERNS : p[1] \in full_text /\ p[2] \in full_text
             THEN FALSE
        ELSE IF ParenthesisedAi \in title /\ title \cap PRIMARY_AI_KEYWORDS = {}
             THEN FALSE
        ELSE IF title \cap legal_privacy_keywords # {} /\ title \cap PRIMARY_AI_KEYWORDS = {}
             THEN FALSE
        ELSE IF title_and_early_desc \cap PRIMARY_AI_KEYWORDS # {} THEN TRUE
        ELSE IF full_text \cap CONTEXT_KEYWORDS # {} THEN TRUE
        ELSE IF Cardinality(secondary_matches) >= 2 THEN TRUE
        ELSE IF full_text \cap REQUIRES_STRONG_CONTEXT # {} /\ secondary_matches # {}
             THEN TRUE
        ELSE title \cap ai_companies # {}

\* the outcome of a call of is_ai_related
Classified(x) ==
    IF LowerRaises(x) THEN "AttributeError"
    ELSE IF is_ai_related(x) THEN "True" ELSE "False"

\* the outcomes of a call of filter_items
NotCalled == [outcome |-> "none", items |-> << >>]
Returned(items) == [outcome |-> "returned", items |-> items]
Raised == [outcome |-> "AttributeError", items |-> << >>]

\* a filter that gives the kept items in reverse order
RECURSIVE Reversed(_)
Reversed(q) == IF q = << >> THEN << >> ELSE Append(Reversed(Tail(q)), Head(q))

filter_items_Reversed(items) ==
    IF \E j \in 1..Len(items) : LowerRaises(items[j])
    THEN Raised
    ELSE Returned(Reversed(SelectSeq(items, is_ai_related)))

\* lines 194-210: [item for item in items if cls.is_ai_related(item)]; an
\* exception of is_ai_related leaves the comprehension and filter_items
filter_items(items) ==
    IF \E j \in 1..Len(items) : LowerRaises(items[j])
    THEN Raised
    ELSE Returned(SelectSeq(items, is_ai_related))

\* the items a batch is made of: an AI title, a title with an exclusion pair
\* and a title that is None, from an allowlisted feed and from another one
BatchItems ==
    [title : {Text({"chatgpt"}, {}), Text({"laptop", "review"}, {}), Null},
     description : {Text({}, {})},
     feed_name : FeedNames]

NoItemYet == [title |-> Missing, description |-> Missing, feed_name |-> "<missing>"]

FilterParked ==
    /\ x_item = NoItemYet
    /\ x_result = "none"
    /\ batch = << >>
    /\ filtered = NotCalled
    /\ refiltered = NotCalled

\* any item, for one call of is_ai_related
ClassifierInit ==
    /\ x_item \in FilterItems
    /\ x_result = "none"
    /\ batch = << >>
    /\ filtered = NotCalled
    /\ refiltered = NotCalled

\* any batch, for filter_items
FilterInit ==
    /\ x_item = NoItemYet
    /\ x_result = "none"
    /\ batch \in SeqsUpTo(BatchItems, MaxBatch)
    /\ filtered = NotCalled
    /\ refiltered = NotCalled

\* is_ai_related(x_item) is called
Classify ==
    /\ x_result = "none"
    /\ x_result' = Classified(x_item)
    /\ UNCHANGED <<x_item, batch, filtered, refiltered>>

\* filter_items(batch) is called
FilterBatch ==
    /\ filtered = NotCalled
    /\ filtered' = filter_items(batch)
    /\ UNCHANGED <<x_item, x_result, batch, refiltered>>

\* filter_items is called on the list it returned
FilterAgain ==
    /\ filtered.outcome = "returned"
    /\ refiltered = NotCalled
    /\ refiltered' = filter_items(filtered.items)
    /\ UNCHANGED <<x_item, x_result, batch, filtered>>

(***************************************************************************)
(* From the feeds to the loops: RSSParser (rss_parser.py), the selection   *)
(* of main_digest_fixed.py and of EventDrivenSummarizer.process_all_content *)
(* (event_driven_main.py), and AIContentFilter (ai_content_filter.py).     *)
(* Time is counted in days; an entry carries its publication day and the   *)
(* title.                                                                 *)
(***************************************************************************)
VARIABLES
    kind,                  \* the kind of feed followed: "news" or "podcast"
    entry_point,           \* "digest" (main_digest_fixed) or "event" (event_driven_main)
    f_pc,                  \* "fetch", "select", "process" or "done"
    feed_no,               \* the feed fetch_all_feeds is at
    all_items,             \* all_items[kind]
    recent,                \* the list the loop iterates
    pos,                   \* position of the loop in recent
    processed              \* the items that reached is_url_processed, in order

fvars == <<kind, entry_point, f_pc, feed_no, all_items, recent, pos, processed>>

MAX_ARTICLES_PER_FEED == 2

Today == MaxPub

\* the titles of the entries: one about AI, one with an exclusion pair
FeedTitles == {Text({"chatgpt"}, {}), Text({"laptop", "review"}, {})}

\* an entry of a parsed feed
Entries == [published_parsed : 0..MaxPub, title : FeedTitles]

\* the feeds followed: the first is on the allowlist of the classifier, the
\* others are not
FeedName(n) == IF n = 1 THEN "MarkTechPost" ELSE "TechRepublic AI"

\* the entries a feed can hold
FeedEntries == SeqsUpTo(Entries, MaxEntries)

Take(q, n) == SubSeq(q, 1, IF Len(q) < n THEN Len(q) ELSE n)

\* fetch_all_feeds, line 118: 72 hours for podcasts, 24 for news
DaysBack(feed_type) == IF feed_type = "podcast" THEN 3 ELSE 1

\* extract_feed_items, lines 68-76: the item of an entry; it has 'published',
\* no 'published_parsed'
ItemOf(e, feed) ==
    [title |-> e.title, description |-> Text({}, {}),
     published |-> e.published_parsed, feed_name |-> FeedName(feed)]

\* extract_feed_items: the first MAX_ARTICLES_PER_FEED entries in the order of
\* the feed, without those published before the cutoff
RECURSIVE ExtractItems(_, _, _)
ExtractItems(entries, feed, cutoff_time) ==
    IF entries = << >> THEN << >>
    ELSE LET e == Head(entries)
             rest == ExtractItems(Tail(entries), feed, cutoff_time)
         IN  IF e.published_parsed < cutoff_time THEN rest
             ELSE <<ItemOf(e, feed)>> \o rest

extract_feed_items(entries, feed, days_back) ==
    ExtractItems(Take(entries, MAX_ARTICLES_PER_FEED), feed, Today - days_back)

\* event_driven_main.py, lines 98 and 128: x.get('published_parsed',
\* time.gmtime(0)), the epoch when the item has no such key
SortKey(x) == IF "published_parsed" \in DOMAIN x THEN x.published_parsed ELSE 0

\* sorted(..., key=..., reverse=True): descending by key, items of equal key
\* in their original order
RECURSIVE InsertDesc(_, _)
InsertDesc(q, x) ==
    IF q = << >> THEN <<x>>
    ELSE IF SortKey(Head(q)) >= SortKey(x) THEN <<Head(q)>> \o InsertDesc(Tail(q), x)
         ELSE <<x>> \o q

RECURSIVE SortedRecent(_)
SortedRecent(q) ==
    IF q = << >> THEN << >>
    ELSE InsertDesc(SortedRecent(SubSeq(q, 1, Len(q) - 1)), q[Len(q)])

\* the caps of the two entry points: [:max_news] and [:max_podcasts] of
\* main_digest_fixed.py, [:10] and [:5] of event_driven_main.py
CapOf(point, feed_type) ==
    IF point = "digest"
    THEN IF feed_type = "news" THEN max_news ELSE max_podcasts
    ELSE IF feed_type = "news" THEN 10 ELSE 5

FeedsInit ==
    /\ kind \in {"news", "podcast"}
    /\ entry_point \in {"digest", "event"}
    /\ f_pc = "fetch"
    /\ feed_no = 1
    /\ all_items = << >>
    /\ recent = << >>
    /\ pos = 1
    /\ processed = << >>

FeedsParked == FeedsInit /\ kind = "news" /\ entry_point = "digest"

\* fetch_all_feeds, lines 114-123, for one feed of the kind: fetch_feed gives
\* the parsed feed, or None when the requests failed
FetchFeed(fetched, entries) ==
    /\ f_pc = "fetch"
    /\ feed_no <= NumFeeds
    /\ all_items' = IF fetched
                    THEN all_items \o extract_feed_items(entries, feed_no, DaysBack(kind))
                    ELSE all_items
    /\ feed_no' = feed_no + 1
    /\ UNCHANGED <<kind, entry_point, f_pc, recent, pos, processed>>

\* the list of the loop: a slice of all_items (main_digest_fixed.py, lines 81
\* and 143), or of sorted(all_items) (event_driven_main.py, lines 97-99 and
\* 127-129)
SelectRecent ==
    /\ f_pc = "fetch"
    /\ feed_no > NumFeeds
    /\ recent' = IF entry_point = "digest"
                 THEN Take(all_items, CapOf(entry_point, kind))
                 ELSE Take(SortedRecent(all_items), CapOf(entry_point, kind))
    /\ f_pc' = "process"
    /\ UNCHANGED <<kind, entry_point, feed_no, all_items, pos, processed>>

\* the loop takes its next item to db_client.is_url_processed
ProcessItem ==
    /\ f_pc = "process"
    /\ pos <= Len(recent)
    /\ processed' = Append(processed, recent[pos])
    /\ pos' = pos + 1
    /\ UNCHANGED <<kind, entry_point, f_pc, feed_no, all_items, recent>>

\* the loop is over
ProcessEnds ==
    /\ f_pc = "process"
    /\ pos > Len(recent)
    /\ f_pc' = "done"
    /\ UNCHANGED <<kind, entry_point, feed_no, all_items, recent, pos, processed>>

(***************************************************************************)
(* The slices of main_digest_fixed.py and the calls made for their items:  *)
(* all_items['news'][:max_news] and all_items['podcast'][:max_podcasts],   *)
(* for lists longer than the caps.  One kind is followed; an item is told  *)
(* by its position in the list of fetch_all_feeds.                         *)
(***************************************************************************)
VARIABLES
    loop_kind,             \* the kind followed: "news" or "podcast"
    listed,                \* len(all_items[kind])
    sliced,                \* the slice the for statement iterates
    at,                    \* the position of the loop in the slice
    n_pc,                  \* "slice", "loop" or "done"
    fetch_calls,           \* calls of web_scraper.fetch_article_content
    summarize_calls,       \* calls of summarize_article or summarize_podcast
    digest_entries         \* calls of add_news_item or add_podcast_item

nvars == <<loop_kind, listed, sliced, at, n_pc, fetch_calls, summarize_calls,
           digest_entries>>

SlicesInit ==
    /\ loop_kind \in {"news", "podcast"}
    /\ listed \in 0..MaxListed
    /\ sliced = << >>
    /\ at = 1
    /\ n_pc = "slice"
    /\ fetch_calls = 0
    /\ summarize_calls = 0
    /\ digest_entries = 0

SlicesParked == SlicesInit /\ loop_kind = "news" /\ listed = 0

\* lines 81 and 143: the slice is evaluated once, when the for statement starts
TakeSlice ==
    /\ n_pc = "slice"
    /\ sliced' = Take([j \in 1..listed |-> j], Capped(loop_kind))
    /\ n_pc' = "loop"
    /\ UNCHANGED <<loop_kind, listed, at, fetch_calls, summarize_calls, digest_entries>>

\* how far the body of the loop gets with an item: 0 the lookup (skipped, or
\* it raised), 1 the content fetch, 2 the summarization, 3 the digest
Stages(feed_type) == IF feed_type = "news" THEN 0..3 ELSE {0, 2, 3}

\* lines 89-135 and 151-183: the body of the loop for the item at the
\* position; an episode is summarized from its description, without a fetch
SliceItem(reached) ==
    /\ n_pc = "loop"
    /\ at <= Len(sliced)
    /\ reached \in Stages(loop_kind)
    /\ fetch_calls' = IF loop_kind = "news" /\ reached >= 1
                      THEN fetch_calls + 1 ELSE fetch_calls
    /\ summarize_calls' = IF reached >= 2 THEN summarize_calls + 1 ELSE summarize_calls
    /\ digest_entries' = IF reached = 3 THEN digest_entries + 1 ELSE digest_entries
    /\ at' = at + 1
    /\ UNCHANGED <<loop_kind, listed, sliced, n_pc>>

\* lines 83-87 and 145-149: break on the timeout
SliceBreaks ==
    /\ n_pc = "loop"
    /\ at <= Len(sliced)
    /\ n_pc' = "done"
    /\ UNCHANGED <<loop_kind, listed, sliced, at, fetch_calls, summarize_calls,
                   digest_entries>>

\* the slice is exhausted
SliceEnds ==
    /\ n_pc = "loop"
    /\ at > Len(sliced)
    /\ n_pc' = "done"
    /\ UNCHANGED <<loop_kind, listed, sliced, at, fetch_calls, summarize_calls,
                   digest_entries>>

(***************************************************************************)
(* Specifications: one for each component, the others standing still.      *)
(***************************************************************************)
vars == <<bvars, svars, pvars, cvars, lvars, avars, evars, fvars, nvars, xvars>>

BreakerSpecInit == FilterParked /\ SlicesParked /\ FeedsParked /\ ConfigParked /\ AlarmParked /\ LimiterParked /\ BreakerInit /\ StoreInit /\ PipelineParked /\ ClientParked

BreakerSpecNext ==
    \/ CallRejected /\ UNCHANGED <<svars, pvars, cvars, lvars, avars, evars, fvars, nvars, xvars>>
    \/ CallInvoke /\ UNCHANGED <<svars, pvars, cvars, lvars, avars, evars, fvars, nvars, xvars>>
    \/ FuncReturns /\ UNCHANGED <<svars, pvars, cvars, lvars, avars, evars, fvars, nvars, xvars>>
    \/ FuncRaisesExpected /\ UNCHANGED <<svars, pvars, cvars, lvars, avars, evars, fvars, nvars, xvars>>
    \/ FuncRaisesOther /\ UNCHANGED <<svars, pvars, cvars, lvars, avars, evars, fvars, nvars, xvars>>
    \/ Tick /\ UNCHANGED <<svars, pvars, cvars, lvars, avars, evars, fvars, nvars, xvars>>

SpecBreaker == BreakerSpecInit /\ [][BreakerSpecNext]_vars

\* the wrapped function succeeds on every call from some point on: it raises
\* only while the clock leaves room for the recovery timeout
MayStillFail == now + MaxRecovery <= MaxTime

BreakerLiveNext ==
    \/ CallRejected /\ UNCHANGED <<svars, pvars, cvars, lvars, avars, evars, fvars, nvars, xvars>>
    \/ CallInvoke /\ UNCHANGED <<svars, pvars, cvars, lvars, avars, evars, fvars, nvars, xvars>>
    \/ FuncReturns /\ UNCHANGED <<svars, pvars, cvars, lvars, avars, evars, fvars, nvars, xvars>>
    \/ MayStillFail /\ FuncRaisesExpected
           /\ UNCHANGED <<svars, pvars, cvars, lvars, avars, evars, fvars, nvars, xvars>>
    \/ MayStillFail /\ FuncRaisesOther
           /\ UNCHANGED <<svars, pvars, cvars, lvars, avars, evars, fvars, nvars, xvars>>
    \/ Tick /\ UNCHANGED <<svars, pvars, cvars, lvars, avars, evars, fvars, nvars, xvars>>

\* time keeps advancing, calls keep being made, and a call that may no longer
\* fail returns
SpecBreakerLive ==
    /\ BreakerSpecInit
    /\ [][BreakerLiveNext]_vars
    /\ WF_bvars(Tick)
    /\ WF_bvars(CallInvoke)
    /\ WF_bvars(FuncReturns)

StoreSpecInit == FilterParked /\ SlicesParked /\ FeedsParked /\ ConfigParked /\ AlarmParked /\ LimiterParked /\ BreakerParked /\ StoreInit /\ PipelineParked /\ ClientParked

StoreSpecNext ==
    \/ \E u \in Urls, fault \in BOOLEAN :
          StoreLookup(u, fault) /\ UNCHANGED <<bvars, pvars, cvars, lvars, avars, evars, fvars, nvars, xvars>>
    \/ \E u \in Urls, fault \in BOOLEAN :
          StoreMark(u, fault) /\ UNCHANGED <<bvars, pvars, cvars, lvars, avars, evars, fvars, nvars, xvars>>
    \/ \E u \in Urls : ExpireRecord(u) /\ UNCHANGED <<bvars, pvars, cvars, lvars, avars, evars, fvars, nvars, xvars>>
    \/ DayTick /\ UNCHANGED <<bvars, pvars, cvars, lvars, avars, evars, fvars, nvars, xvars>>

SpecStore == StoreSpecInit /\ [][StoreSpecNext]_vars

\* an invocation starts on the collection that earlier invocations left: any
\* set of URLs marked by them
StoreLeft ==
    /\ day = 0
    /\ \E done \in SUBSET Urls :
          /\ collection = [d \in DocIds |->
                             IF d[2] \in done THEN NewDoc(d[2]) ELSE NoDoc]
          /\ marked = done
    /\ s_op = "none"
    /\ s_url = NoUrl
    /\ s_fault = FALSE
    /\ s_ret = "none"

PipelineSpecInit == FilterParked /\ SlicesParked /\ FeedsParked /\ ConfigInit /\ AlarmParked /\ LimiterParked /\ BreakerParked /\ StoreLeft /\ RunInit /\ ClientParked

PipelineSpecNext ==
    \/ \E c \in BOOLEAN : Validate(c) /\ UNCHANGED <<bvars, cvars, lvars, avars, fvars, nvars, xvars>>
    \/ \E r \in Outcomes : GenerateTip(r) /\ UNCHANGED <<bvars, cvars, lvars, avars, evars, fvars, nvars, xvars>>
    \/ \E ok \in BOOLEAN :
          FetchFeeds(ok) /\ ExceptHandler /\ UNCHANGED <<bvars, cvars, lvars, avars, fvars, nvars, xvars>>
    \/ \E ex \in BOOLEAN : LoopEnds(ex) /\ UNCHANGED <<bvars, cvars, lvars, avars, evars, fvars, nvars, xvars>>
    \/ \E t \in TimePoints : LoopBreaks(t) /\ UNCHANGED <<bvars, cvars, lvars, avars, evars, fvars, nvars, xvars>>
    \/ \E ok \in BOOLEAN :
          EnterPodcasts(ok) /\ ExceptHandler /\ UNCHANGED <<bvars, cvars, lvars, avars, fvars, nvars, xvars>>
    \/ \E it \in Items, t \in TimePoints :
          TakeItem(it.url, it.description, t) /\ UNCHANGED <<bvars, cvars, lvars, avars, evars, fvars, nvars, xvars>>
    \/ \E r \in {"ok", "raise"}, fault \in BOOLEAN : Lookup(r, fault) /\ UNCHANGED <<bvars, cvars, lvars, avars, evars, fvars, nvars, xvars>>
    \/ \E r \in Outcomes : FetchContent(r) /\ UNCHANGED <<bvars, cvars, lvars, avars, evars, fvars, nvars, xvars>>
    \/ \E r \in Outcomes : Summarize(r) /\ UNCHANGED <<bvars, cvars, lvars, avars, evars, fvars, nvars, xvars>>
    \/ \E r \in ToolOutcomes : ExtractTool(r) /\ UNCHANGED <<bvars, cvars, lvars, avars, evars, fvars, nvars, xvars>>
    \/ \E r \in {"ok", "raise"}, fault \in BOOLEAN : Mark(r, fault) /\ UNCHANGED <<bvars, cvars, lvars, avars, evars, fvars, nvars, xvars>>
    \/ \E r \in ToolOutcomes : Spotlight(r) /\ UNCHANGED <<bvars, cvars, lvars, avars, evars, fvars, nvars, xvars>>
    \/ \E r \in {"True", "False", "raise"} :
          Send(r) /\ ExceptHandler /\ UNCHANGED <<bvars, cvars, lvars, avars, fvars, nvars, xvars>>

SpecPipeline == PipelineSpecInit /\ [][PipelineSpecNext]_vars

\* the breaker that the decorator of _make_request constructs
ClientBreakerInit ==
    /\ smart = FALSE
    /\ failure_threshold = ClientFailureThreshold
    /\ recovery_timeout = ClientRecoveryTimeout
    /\ success_threshold = 0
    /\ state = CLOSED
    /\ failure_count = 0
    /\ last_failure_time = NoTime
    /\ success_count = 0
    /\ consecutive_failures = 0
    /\ now = 0
    /\ pc = "idle"
    /\ outcome = "none"
    /\ trial = FALSE
    /\ callSeq = 0
    /\ streak = 0
    /\ entry = <<CLOSED, 0, NoTime>>

ClientSpecInit == FilterParked /\ SlicesParked /\ FeedsParked /\ ConfigParked /\ AlarmParked /\ LimiterParked /\ ClientBreakerInit /\ ClientInit /\ StoreInit /\ PipelineParked

ClientSpecNext ==
    \/ \E m \in BOOLEAN : ClientCall(m) /\ UNCHANGED <<svars, pvars, lvars, avars, evars, fvars, nvars, xvars>>
    \/ \E r \in ApiOutcomes : ApiAttempt(r) /\ UNCHANGED <<svars, pvars, lvars, avars, evars, fvars, nvars, xvars>>
    \/ Tick /\ UNCHANGED <<svars, pvars, cvars, lvars, avars, evars, fvars, nvars, xvars>>

SpecClient == ClientSpecInit /\ [][ClientSpecNext]_vars

AlarmSpecInit ==
    FilterParked /\ SlicesParked /\ FeedsParked /\ ConfigParked /\ BreakerParked /\ StoreLeft /\ RunInit /\ ClientParked /\ LimiterParked /\ AlarmParked

AlarmSpecNext ==
    \/ \E c \in BOOLEAN : AlarmStart(c) /\ UNCHANGED <<bvars, cvars, lvars, evars, fvars, nvars, xvars>>
    \/ \E r \in Outcomes : GenerateTip(r) /\ UNCHANGED <<bvars, cvars, lvars, avars, evars, fvars, nvars, xvars>>
    \/ \E ok \in BOOLEAN : FetchFeeds(ok) /\ UNCHANGED <<bvars, cvars, lvars, avars, evars, fvars, nvars, xvars>>
    \/ AlarmLoopEnds /\ UNCHANGED <<bvars, cvars, lvars, evars, fvars, nvars, xvars>>
    \/ \E ok \in BOOLEAN : EnterPodcasts(ok) /\ UNCHANGED <<bvars, cvars, lvars, avars, evars, fvars, nvars, xvars>>
    \/ \E it \in Items :
          AlarmTakeItem(it.url, it.description) /\ UNCHANGED <<bvars, cvars, lvars, evars, fvars, nvars, xvars>>
    \/ \E r \in {"ok", "raise"}, fault \in BOOLEAN :
          Lookup(r, fault) /\ UNCHANGED <<bvars, cvars, lvars, avars, evars, fvars, nvars, xvars>>
    \/ \E r \in Outcomes : FetchContent(r) /\ UNCHANGED <<bvars, cvars, lvars, avars, evars, fvars, nvars, xvars>>
    \/ \E r \in Outcomes :
          SummarizeThen(r, "mark") /\ UNCHANGED <<bvars, cvars, lvars, avars, evars, fvars, nvars, xvars>>
    \/ \E r \in {"ok", "raise"}, fault \in BOOLEAN :
          Mark(r, fault) /\ UNCHANGED <<bvars, cvars, lvars, avars, evars, fvars, nvars, xvars>>
    \/ \E r \in {"True", "False", "raise"} :
          AlarmSend(r) /\ UNCHANGED <<bvars, cvars, lvars, evars, fvars, nvars, xvars>>
    \/ AlarmCancel /\ UNCHANGED <<bvars, cvars, lvars, evars, fvars, nvars, xvars>>
    \/ \E caught \in BOOLEAN, begun \in 0..1 :
          AlarmFires(caught, begun) /\ UNCHANGED <<bvars, cvars, lvars, evars, fvars, nvars, xvars>>

SpecAlarm == AlarmSpecInit /\ [][AlarmSpecNext]_vars

LimiterSpecInit ==
    FilterParked /\ SlicesParked /\ FeedsParked /\ ConfigParked /\ AlarmParked /\ BreakerParked /\ StoreInit /\ PipelineParked /\ ClientParked /\ LimiterInit

LimiterSpecNext ==
    \/ \E key \in Keys, gap \in 0..MaxGap, late \in LatePlaces :
          WaitIfNeeded(key, gap, late) /\ UNCHANGED <<bvars, svars, pvars, cvars, avars, evars, fvars, nvars, xvars>>

SpecLimiter == LimiterSpecInit /\ [][LimiterSpecNext]_vars

FeedsSpecInit ==
    FilterParked /\ SlicesParked /\ FeedsInit /\ ConfigParked /\ AlarmParked /\ LimiterParked /\ BreakerParked
        /\ StoreInit /\ PipelineParked /\ ClientParked

FeedsSpecNext ==
    \/ \E fetched \in BOOLEAN, entries \in FeedEntries :
          FetchFeed(fetched, entries)
              /\ UNCHANGED <<bvars, svars, pvars, cvars, lvars, avars, evars, nvars, xvars>>
    \/ SelectRecent /\ UNCHANGED <<bvars, svars, pvars, cvars, lvars, avars, evars, nvars, xvars>>
    \/ ProcessItem /\ UNCHANGED <<bvars, svars, pvars, cvars, lvars, avars, evars, nvars, xvars>>
    \/ ProcessEnds /\ UNCHANGED <<bvars, svars, pvars, cvars, lvars, avars, evars, nvars, xvars>>

SpecFeeds == FeedsSpecInit /\ [][FeedsSpecNext]_vars

SlicesSpecInit ==
    FilterParked /\ SlicesInit /\ FeedsParked /\ ConfigParked /\ AlarmParked /\ LimiterParked
        /\ BreakerParked /\ StoreInit /\ PipelineParked /\ ClientParked

SlicesSpecNext ==
    \/ TakeSlice /\ UNCHANGED <<bvars, svars, pvars, cvars, lvars, avars, evars, fvars, xvars>>
    \/ \E reached \in 0..3 :
          SliceItem(reached)
              /\ UNCHANGED <<bvars, svars, pvars, cvars, lvars, avars, evars, fvars, xvars>>
    \/ SliceBreaks /\ UNCHANGED <<bvars, svars, pvars, cvars, lvars, avars, evars, fvars, xvars>>
    \/ SliceEnds /\ UNCHANGED <<bvars, svars, pvars, cvars, lvars, avars, evars, fvars, xvars>>

SpecSlices == SlicesSpecInit /\ [][SlicesSpecNext]_vars

ClassifierSpecInit ==
    ClassifierInit /\ SlicesParked /\ FeedsParked /\ ConfigParked /\ AlarmParked
        /\ LimiterParked /\ BreakerParked /\ StoreInit /\ PipelineParked /\ ClientParked

ClassifierSpecNext ==
    Classify /\ UNCHANGED <<bvars, svars, pvars, cvars, lvars, avars, evars, fvars, nvars>>

SpecClassifier == ClassifierSpecInit /\ [][ClassifierSpecNext]_vars

FilterSpecInit ==
    FilterInit /\ SlicesParked /\ FeedsParked /\ ConfigParked /\ AlarmParked
        /\ LimiterParked /\ BreakerParked /\ StoreInit /\ PipelineParked /\ ClientParked

FilterSpecNext ==
    \/ FilterBatch /\ UNCHANGED <<bvars, svars, pvars, cvars, lvars, avars, evars, fvars, nvars>>
    \/ FilterAgain /\ UNCHANGED <<bvars, svars, pvars, cvars, lvars, avars, evars, fvars, nvars>>

SpecFilter == FilterSpecInit /\ [][FilterSpecNext]_vars

(***************************************************************************)
(* Claims on the relevance classifier, checked under SpecClassifier (one   *)
(* call of is_ai_related) and SpecFilter (filter_items on a batch).        *)
(***************************************************************************)

\* an exclusion pair has both its terms in the title and description
ExclusionPairIn(x) ==
    LET full_text == Get(x.title).early \cup Get(x.description).early
                         \cup Get(x.description).late
    IN  \E p \in EXCLUDE_PATTERNS : {p[1], p[2]} \subseteq full_text

C26_FilterNeverRaises ==
    filtered.outcome # "AttributeError"

\* the positions of the batch whose item is relevant
Relevant == {j \in 1..Len(batch) : is_ai_related(batch[j])}

\* kept is a subsequence of the batch, in the order of the batch, made of
\* exactly the relevant items
KeepsRelevantInOrder(kept) ==
    \E f \in [1..Len(kept) -> 1..Len(batch)] :
        /\ \A a, b \in 1..Len(kept) : a < b => f[a] < f[b]
        /\ \A a \in 1..Len(kept) : kept[a] = batch[f[a]]
        /\ {f[a] : a \in 1..Len(kept)} = Relevant

\* C27: the list filter_items returns is a subsequence of its argument in the
\* same relative order, with exactly the items for which is_ai_related is
\* true, and filter_items returns that same list when it is applied to it
C27_FilterIdempotentInOrder ==
    /\ filtered.outcome = "returned" => KeepsRelevantInOrder(filtered.items)
    /\ refiltered.outcome # "none" => refiltered = filtered

\* a batch of three items of which two different ones were kept, filtered
\* twice
C27_Witness ==
    /\ Len(batch) = 3
    /\ refiltered.outcome = "returned"
    /\ Len(filtered.items) = 2
    /\ filtered.items[1] # filtered.items[2]

(***************************************************************************)
(* Claims on the slices of the loops, checked under SpecSlices.            *)
(***************************************************************************)

\* C21: the cap of the kind (5 news items, 10 podcast items) is applied to
\* the list before the loop starts: the slice is no longer than the cap, the
\* loop never goes past it, and the content fetches, the summarization calls
\* and the digest entries of the kind number at most the cap
C21_CapsBoundTheCalls ==
    LET cap == IF loop_kind = "news" THEN max_news ELSE max_podcasts
    IN  /\ Len(sliced) <= cap
        /\ at <= Len(sliced) + 1
        /\ n_pc = "slice" =>
               fetch_calls = 0 /\ summarize_calls = 0 /\ digest_entries = 0
        /\ fetch_calls <= cap
        /\ summarize_calls <= cap
        /\ digest_entries <= cap

\* a list longer than the cap whose first items, as many as the cap, all got
\* into the digest
C21_Witness ==
    /\ n_pc = "done"
    /\ listed > max_podcasts
    /\ digest_entries = IF loop_kind = "news" THEN max_news ELSE max_podcasts
    /\ summarize_calls = digest_entries

(***************************************************************************)
(* Claims on the way from the feeds to the loops, checked under SpecFeeds. *)
(***************************************************************************)

\* C19: every item that reaches the dedup lookup has passed the relevance
\* classifier: is_ai_related is true for it
C19_OnlyRelevantItemsProcessed ==
    \A j \in 1..Len(processed) : is_ai_related(processed[j])

\* C20: within a kind, an item processed before another one was not
\* published earlier than it
C20_MostRecentFirst ==
    \A a, b \in 1..Len(processed) :
        a < b => processed[a].published >= processed[b].published

(***************************************************************************)
(* Claims on the circuit breaker, checked under SpecBreaker.               *)
(***************************************************************************)

\* a call() entered while the circuit is OPEN and recovery_timeout has not
\* elapsed since the last failure
EarlyCall ==
    /\ pc = "idle"
    /\ state = OPEN
    /\ now < last_failure_time + recovery_timeout
    /\ callSeq' # callSeq

\* C1: once failure_threshold consecutive invocations of the wrapped function
\* have raised the expected exception the state is OPEN, and a call made while
\* OPEN before recovery_timeout has elapsed since the last failure is rejected
\* and the wrapped function is not invoked.
C1_OpensAfterThreshold ==
    /\ []((pc = "idle" /\ streak >= failure_threshold) => state = OPEN)
    /\ [][EarlyCall => (outcome' = "rejected" /\ pc' = "idle" /\ state' = OPEN)]_vars

C1_Witness ==
    /\ outcome = "rejected"
    /\ state = OPEN
    /\ streak = failure_threshold
    /\ failure_threshold = MaxThreshold
    /\ now < last_failure_time + recovery_timeout

\* C8: the trial call made in HALF_OPEN is the only one: when a call of a
\* CircuitBreaker ends, whatever its outcome, the state is not HALF_OPEN.
C8_TrialLeavesHalfOpen ==
    (~smart /\ pc = "idle") => state # HALF_OPEN

\* C9: a CircuitBreaker call that succeeds in HALF_OPEN leaves CLOSED with
\* failure_count = 0, and the circuit leaves CLOSED for OPEN only on an expected
\* failure that brings failure_count, one by one, up to failure_threshold.
C9_TrialSuccessCloses ==
    [][/\ (~smart /\ pc = "in_call" /\ state = HALF_OPEN /\ outcome' = "success")
            => (state' = CLOSED /\ failure_count' = 0)
       /\ (~smart /\ state = CLOSED /\ state' = OPEN)
            => /\ outcome' = "expected"
               /\ failure_count' = failure_count + 1
               /\ failure_count' >= failure_threshold]_vars

C9_Witness ==
    /\ ~smart
    /\ pc = "idle"
    /\ trial
    /\ outcome = "success"
    /\ state = CLOSED
    /\ failure_count = 0

\* C10: in both classes one expected failure of a call made in HALF_OPEN leaves
\* OPEN when that call ends and sets last_failure_time to the time of the
\* failure, and every call entered while OPEN less than recovery_timeout after
\* last_failure_time is rejected.
C10_TrialFailureReopens ==
    [][/\ (pc = "in_call" /\ state = HALF_OPEN /\ outcome' = "expected")
            => (state' = OPEN /\ last_failure_time' = now /\ pc' = "idle")
       /\ EarlyCall
            => (outcome' = "rejected" /\ state' = OPEN /\ last_failure_time' = last_failure_time)]_vars

C10_Witness ==
    /\ smart
    /\ pc = "idle"
    /\ trial
    /\ outcome = "expected"
    /\ consecutive_failures = 1
    /\ state = OPEN
    /\ last_failure_time = now

\* C11: when the wrapped function raises an error that is no
\* expected_exception, the call ends with state, failure_count and
\* last_failure_time as they were when call() was entered
C11_OtherErrorLeavesBreakerAlone ==
    (pc = "idle" /\ outcome = "other") => Fields = entry

\* C29: at every point of every sequence of calls, for both classes: a CLOSED
\* breaker has a failure count from 0 to failure_threshold - 1; an OPEN or
\* HALF_OPEN breaker has a failure count of at least failure_threshold and a
\* last failure time that is set
C29_StateMatchesCount ==
    /\ state = CLOSED => (0 <= failure_count /\ failure_count < failure_threshold)
    /\ state \in {OPEN, HALF_OPEN} =>
           (failure_count >= failure_threshold /\ last_failure_time # NoTime)

\* a SmartCircuitBreaker that was reopened by a failed trial call, has had
\* one successful trial call since, and is tried again
C29_Witness ==
    /\ smart
    /\ state = HALF_OPEN
    /\ pc = "in_call"
    /\ failure_count > failure_threshold
    /\ success_count = 1

\* C30: with time advancing, calls being made and the wrapped function
\* succeeding on every call from some point on, the breaker ends up CLOSED
\* for good, from OPEN as from any other state; a CircuitBreaker is closed by
\* the first successful trial call, a SmartCircuitBreaker by the successful
\* trial call that brings success_count to success_threshold
C30_RecoveryIsLive ==
    /\ <>[](state = CLOSED)
    /\ (state = OPEN) ~> (state = CLOSED)
    /\ [][(pc = "in_call" /\ state = HALF_OPEN /\ outcome' = "success")
            => state' = (IF ~smart \/ success_count + 1 >= success_threshold
                         THEN CLOSED
                         ELSE HALF_OPEN)]_vars

\* a SmartCircuitBreaker with success_threshold 2 that was open and has been
\* closed by its second successive successful trial call
C30_Witness ==
    /\ smart
    /\ success_threshold = 2
    /\ state = CLOSED
    /\ trial
    /\ outcome = "success"
    /\ last_failure_time # NoTime
    /\ ~MayStillFail

(***************************************************************************)
(* Claims on the deduplication store, checked under SpecStore.             *)
(***************************************************************************)

\* C6 as stated: once mark_url_processed(u) has returned True, and until the
\* record expires, every is_url_processed(u) returns True, and every further
\* mark_url_processed(u) returns True.
C6_MarkedStaysProcessed ==
    [][(s_url' \in marked /\ s_op' \in {"lookup", "mark"}
          /\ <<s_op, s_url, s_fault, s_ret, collection>>' # <<s_op, s_url, s_fault, s_ret, collection>>)
        => s_ret' = "True"]_vars

\* C6, amended: once mark_url_processed(u) has returned True, and until the
\* record expires, every is_url_processed(u) whose Firestore request does not
\* raise returns True; a further mark_url_processed(u) never raises, and returns
\* True exactly when its request does not raise.
C6_MarkedStaysProcessedUnlessFault ==
    /\ (s_op = "lookup" /\ s_url \in marked /\ ~s_fault) => s_ret = "True"
    /\ (s_op = "mark") => s_ret = BoolStr(~s_fault)

C6_Witness ==
    /\ s_op = "lookup"
    /\ s_url \in marked
    /\ ~s_fault
    /\ s_ret = "True"
    /\ day > 0

\* C24: a document id holds at most one record, that of the URL it is the id
\* of, and a record that exists is not changed while it exists: a repeated
\* mark_url_processed leaves processed_at and expire_at as they were
C24_RecordNeverChanges ==
    /\ [](\A u \in Urls :
            collection[DocId(u)].exists => collection[DocId(u)].url = u)
    /\ [][\A d \in DocIds :
            (collection[d].exists /\ collection'[d].exists) => collection'[d] = collection[d]]_vars

(***************************************************************************)
(* Claims on the summarization client, checked under SpecClient.           *)
(***************************************************************************)
\* C2: once the summarization API has raised openai.APIError throughout 3
\* consecutive calls of the client, the breaker is open: within the recovery
\* timeout no further call gets to _make_request, and so none to the API
C2_FourthCallRejected ==
    (api_streak >= ClientFailureThreshold /\ now < ClientRecoveryTimeout)
        => (state = OPEN /\ pc = "idle")

\* one invocation of _make_request makes at most MAX_RETRIES API attempts,
\* has slept once after each attempt it went on from, and has returned None,
\* not raised, when every attempt ended in a transient error
RetriesBounded ==
    /\ api_calls <= MAX_RETRIES
    /\ pc = "in_call" => (api_calls = attempt /\ Len(sleeps) = attempt)
    /\ \A j \in 1..Len(sleeps) : sleeps[j].attempt = j - 1
    /\ outcome \notin {"expected", "other"}
    /\ (pc = "idle" /\ c_ret # "rejected" /\ api_errors = MAX_RETRIES) => c_ret = "None"

\* C23, as stated: at most MAX_RETRIES attempts, None when they are exhausted,
\* and the sleeps after transient errors follow one backoff that doubles with
\* each attempt, whichever of the two kinds of error was caught
C23_ExponentialBackoff ==
    /\ RetriesBounded
    /\ \A a, b \in 1..Len(sleeps) :
          a < b => sleeps[b].seconds = sleeps[a].seconds * Pow2(sleeps[b].attempt - sleeps[a].attempt)

\* C23, amended: at most MAX_RETRIES attempts, None when they are exhausted;
\* after a rate limit error the sleep is min(5 * 2^attempt, 60) seconds, after
\* the last attempt too; after another API error it is the fixed RETRY_DELAY,
\* and only when a further attempt follows
C23_BackoffByErrorKind ==
    /\ RetriesBounded
    /\ \A j \in 1..Len(sleeps) :
          IF sleeps[j].error = "RateLimitError"
          THEN sleeps[j].seconds = Min(5 * Pow2(sleeps[j].attempt), 60)
          ELSE /\ sleeps[j].error = "APIError"
               /\ sleeps[j].seconds = RETRY_DELAY
               /\ sleeps[j].attempt < MAX_RETRIES - 1
    /\ \A a, b \in 1..Len(sleeps) :
          (a < b /\ sleeps[a].error = "RateLimitError" /\ sleeps[b].error = "RateLimitError")
              => sleeps[b].seconds > sleeps[a].seconds

\* an API error, then a rate limit error: both attempts used, two sleeps,
\* None returned
C23_Witness ==
    /\ pc = "idle"
    /\ c_ret = "None"
    /\ api_calls = MAX_RETRIES
    /\ api_errors = MAX_RETRIES
    /\ Len(sleeps) = 2
    /\ sleeps[1].error = "APIError"
    /\ sleeps[2].error = "RateLimitError"

(***************************************************************************)
(* Claims on the rate limiter, checked under SpecLimiter.                  *)
(***************************************************************************)
LastReturn(k) == rl_returns[k][Len(rl_returns[k])]

\* C12: for every key, two consecutive returns of wait_if_needed are at least
\* 60 / calls_per_minute apart, a call that waited for the reset of the
\* window included
C12_MinimumSpacing ==
    \A k \in Keys : \A j \in 1..(Len(rl_returns[k]) - 1) :
        rl_returns[k][j + 1] - rl_returns[k][j] >= Interval

\* the last call found the limit hit and slept until the reset of the window,
\* after another call on the same key
C12_Witness ==
    /\ rl_last.key \in Keys
    /\ rl_last.slept
    /\ Len(rl_returns[rl_last.key]) >= 2

\* the last call came, before the reset of the window, after calls_per_minute
\* calls counted in it
LimitHit == rl_last.key \in Keys /\ rl_last.limited

\* C13: for every key no more than calls_per_minute calls return within any
\* 60 seconds, and a call that comes when calls_per_minute calls are counted
\* in the current window returns no earlier than the reset time of that
\* window, with the count started again from zero (1 once it is counted)
C13_WindowCap ==
    /\ \A k \in Keys : \A j \in 1..(Len(rl_returns[k]) - rl_calls_per_minute) :
          rl_returns[k][j + rl_calls_per_minute] - rl_returns[k][j] >= Minute
    /\ LimitHit => LastReturn(rl_last.key) >= rl_last.reset
    /\ LimitHit => rl_call_counts[rl_last.key] = 1

(***************************************************************************)
(* Claims on the digest orchestrator, checked under SpecPipeline.          *)
(***************************************************************************)
DigestUnchanged ==
    news_items' = news_items /\ podcast_items' = podcast_items

NextItem ==
    i' = i + 1 /\ step' = "check" /\ p_pc' = p_pc

\* a call made for the current item raises in this step
ItemRaises == InLoop /\ ~cur.error /\ cur'.error

\* C3: an exception raised at a step of the loop body (lookup, content fetch,
\* summarization, tool extraction, mark) adds exactly 1 to the error count and
\* the loop goes on with the next item: the handler stays in the loop
C3_ItemErrorContained ==
    [][ItemRaises => (errors' = errors + 1 /\ NextItem /\ DigestUnchanged)]_vars

\* the tip was generated, one of two items raised, the other one is in the
\* digest with its tool, and the digest was sent
C3_Witness ==
    /\ p_pc = "returned"
    /\ send_result = "True"
    /\ ai_tip
    /\ errors = 1
    /\ taken = 2
    /\ Len(news_items) = 1
    /\ tool_spotlight = "article"

\* a content fetch or a summarization of the current item returns nothing in
\* this step
NullResult ==
    /\ InLoop
    /\ \/ cur.content # "null" /\ cur'.content = "null"
       \/ cur.summary # "null" /\ cur'.summary = "null"

\* C4: an item whose content fetch or summarization returns nothing is
\* skipped with the error count unchanged, and once the loops are over the
\* digest has, of each kind, as many entries as items that the store reported
\* unprocessed, that had content and that got a summary
C4_NullSkippedAndCounted ==
    /\ []((p_pc \in {"spotlight", "send", "returned"}) =>
             (Len(news_items) = good.news /\ Len(podcast_items) = good.podcast))
    /\ [][NullResult => (errors' = errors /\ NextItem /\ DigestUnchanged)]_vars

\* two articles done: the first one is in the digest, the content fetch of
\* the second one returned nothing, no error counted
C4_Witness ==
    /\ p_pc = "news"
    /\ step = "check"
    /\ i = 3
    /\ cur.content = "null"
    /\ Len(news_items) = 1
    /\ good.news = 1
    /\ errors = 0

\* an item is appended to the digest in this step
DigestAppends == ~DigestUnchanged

\* the store reports the current item as processed in this step
ReportedProcessed == InLoop /\ cur.lookup = "none" /\ cur'.lookup = "True"

\* C5, as stated: an item the store reports as processed is skipped, and a
\* URL that was marked never comes into a digest again
C5_MarkedNeverReappears ==
    /\ [][ReportedProcessed =>
            (NextItem /\ DigestUnchanged /\ collection' = collection
               /\ errors' = errors)]_vars
    /\ [][DigestAppends => item.url \notin marked]_vars

\* C5, amended: an item the store reports as processed is skipped (nothing
\* fetched, summarized, added or marked for it), and a URL that was marked
\* comes into a digest again only when the request of its lookup raised
C5_MarkedReappearsOnlyOnLookupFault ==
    /\ [][ReportedProcessed =>
            (NextItem /\ DigestUnchanged /\ collection' = collection
               /\ errors' = errors)]_vars
    /\ [][DigestAppends => (item.url \notin marked \/ cur.lookup = "failed")]_vars
    /\ []((InLoop /\ step \in {"fetch", "summarize", "extract", "mark"})
             => cur.lookup \in {"False", "failed"})

\* the same URL twice in one run: the first article was summarized and
\* marked, the second one was reported processed and skipped
C5_Witness ==
    /\ p_pc = "news"
    /\ step = "check"
    /\ i = 3
    /\ cur.lookup = "True"
    /\ news_items = <<item.url>>
    /\ item.url \in marked
    /\ errors = 0

\* the request of the lookup raises inside is_url_processed in this step
LookupFails == InLoop /\ cur.lookup = "none" /\ cur'.lookup = "failed"

\* mark_url_processed fails (returns False) in this step
MarkFails == InLoop /\ cur.mark = "none" /\ cur'.mark = "False"

\* C7: when the request of the lookup raises, the item goes on to the content
\* fetch (article) or the summarization (episode), no error counted; when
\* mark_url_processed fails, the item stays last in the digest, the error
\* count is unchanged and the loop goes on with the next item
C7_StoreFailureKeepsItem ==
    /\ [][LookupFails =>
            (/\ step' = IF p_pc = "news" THEN "fetch" ELSE "summarize"
             /\ i' = i /\ p_pc' = p_pc /\ item' = item
             /\ errors' = errors)]_vars
    /\ [][MarkFails =>
            (/\ DigestUnchanged
             /\ IF p_pc = "news"
                THEN news_items # <<>> /\ news_items[Len(news_items)] = item.url
                ELSE podcast_items # <<>>
                       /\ podcast_items[Len(podcast_items)] = item.url
             /\ errors' = errors
             /\ NextItem)]_vars

\* the loop is left in this step because the elapsed time computed in front
\* of an item is over the budget
TimeoutBreak ==
    InLoop /\ step = "check" /\ p_pc' # p_pc /\ elapsed' > Budget(p_pc)

\* the places of the handler, in the order of the code
Rank(place) ==
    CASE place = "start" -> 0
      [] place = "tip" -> 1
      [] place = "feeds" -> 2
      [] place = "news" -> 3
      [] place = "podcast_guard" -> 4
      [] place = "podcast" -> 5
      [] place = "spotlight" -> 6
      [] place = "send" -> 7
      [] place \in {"returned", "raised"} -> 8

\* C14: when the elapsed time computed in front of an item is over the
\* threshold, the loop of that kind is left for good with no item taken, the
\* digest and the error count as they are, for the code that follows the
\* loop (no exception); a run that returns has called send_digest on what
\* was accumulated
C14_TimeoutSendsPartialDigest ==
    /\ [][TimeoutBreak =>
            (/\ p_pc' = AfterLoop(p_pc)
             /\ DigestUnchanged
             /\ taken' = taken
             /\ errors' = errors)]_vars
    /\ [][Rank(p_pc') >= Rank(p_pc)]_vars
    /\ [][p_pc' = "send" => DigestUnchanged]_vars
    /\ [](p_pc = "returned" => sends = 1)

\* the news loop timed out in front of its second article, and the digest
\* with the first article was sent
C14_Witness ==
    /\ p_pc = "returned"
    /\ elapsed = NewsBudget + 1
    /\ taken = 1
    /\ Len(news_items) = 1
    /\ send_result = "True"

\* this step starts an external call: a step of the body of a loop (store
\* lookup, content fetch, summarization, tool extraction, mark), or
\* generate_tool_spotlight of line 189
ExternalCallStarts ==
    \/ InLoop /\ step # "check"
    \/ p_pc = "spotlight" /\ ~tool_spotlight_found /\ p_pc' = "send"

\* C16: once the elapsed time read by the handler is over the budget (480 s,
\* the larger of the two), no external call is started any more
C16_NoCallAfterBudget ==
    [][elapsed > PodcastBudget => ~ExternalCallStarts]_vars

\* the handler is about to call extract_tool_from_article
AtExtraction == InLoop /\ step = "extract"

\* the handler is about to call generate_tool_spotlight
AtGeneration == p_pc = "spotlight" /\ ~tool_spotlight_found

\* C22: a tool extraction is attempted only for the article that was just
\* summarized and added, and only while no extraction has succeeded; a found
\* tool stays found; generate_tool_spotlight is called only at the place
\* after the podcast loop, which is passed once, and only when no extraction
\* succeeded
C22_ToolSpotlightOrder ==
    /\ [](AtExtraction =>
            (/\ p_pc = "news"
             /\ cur.summary = "ok"
             /\ news_items # << >>
             /\ news_items[Len(news_items)] = item.url
             /\ ~tool_spotlight_found))
    /\ [][tool_spotlight_found => tool_spotlight_found']_vars
    /\ [][tool_spotlight' = "generated" /\ tool_spotlight # "generated" => AtGeneration]_vars
    /\ [][p_pc' = "spotlight" /\ p_pc # "spotlight" => p_pc = "podcast"]_vars
    /\ [][p_pc = "spotlight" => Rank(p_pc') > Rank(p_pc)]_vars
    /\ [][Rank(p_pc') >= Rank(p_pc)]_vars
    /\ [](tool_spotlight = "generated" => ~tool_spotlight_found)

\* an article was summarized, its extraction found no tool, and the tool
\* spotlight was generated after the loops
C22_Witness ==
    /\ p_pc = "returned"
    /\ Len(news_items) = 1
    /\ tool_spotlight = "generated"
    /\ ~tool_spotlight_found

\* C28: an article that the loop has finished with and that is in the digest
\* had mark_url_processed called for its URL and was not counted as an error
C28_DigestItemMarkedNoError ==
    (p_pc = "news" /\ step = "check" /\ cur.summary = "ok")
        => (cur.mark # "none" /\ ~cur.error)

\* an article whose lookup failed and whose mark failed: in the digest, no
\* error counted, the loop at the next item
C7_Witness ==
    /\ p_pc = "news"
    /\ step = "check"
    /\ i = 2
    /\ cur.lookup = "failed"
    /\ cur.mark = "False"
    /\ news_items = <<item.url>>
    /\ item.url \notin marked
    /\ errors = 0

\* a run that found the configuration incomplete has raised with no tip
\* generated, no item taken from a feed, nothing looked up or marked in the
\* store, no error counted and no digest sent
AbortedAtOnce ==
    /\ p_pc = "raised"
    /\ ~ai_tip
    /\ taken = 0
    /\ cur = Blank
    /\ errors = 0
    /\ sends = 0

\* C18, as stated: when Config.is_valid() is false the run raises before any
\* external call: no feed fetch, store access, LLM call or webhook post
C18_InvalidConfigNoCall ==
    config_seen = "invalid" => (AbortedAtOnce /\ error_posts = 0)

\* C18, amended: when Config.is_valid() is false the run raises before any
\* feed fetch, store access, LLM call or post of the digest; the except
\* clause posts one error notification to the webhook when its URL is set
C18_InvalidConfigOnlyNotifies ==
    config_seen = "invalid" =>
        (AbortedAtOnce /\ error_posts = IF webhook_url THEN 1 ELSE 0)

\* the configuration lacks a value other than the webhook URL: the run has
\* raised and the error notification was posted
C18_Witness ==
    /\ config_seen = "invalid"
    /\ p_pc = "raised"
    /\ webhook_url
    /\ error_posts = 1

(***************************************************************************)
(* Claims on the orchestrator with an alarm, checked under SpecAlarm.      *)
(***************************************************************************)
\* C15: wherever the alarm fires, in the middle of a step of the loop body
\* included, the handler stops processing items, sends the digest
\* accumulated so far and returns without raising
C15_AlarmStopsAndSends ==
    alarm = "fired" => (p_pc = "returned" /\ sends >= 1)

\* C17: send_digest is called at most once in an invocation, whether it
\* succeeds or fails, wherever the alarm fires
C17_SendsAtMostOnce == sends <= 1

====
